---- MODULE Spec2Model ----
(***************************************************************************)
(* State-machine model of the smo-multi-rs relay server: the listener,     *)
(* the per-connection handshake (Client::initialize_client), the ignore    *)
(* path, the client tasks (Client::handle_events) and the coordinator      *)
(* (Coordinator::handle_commands), with the bounded channels between them. *)
(***************************************************************************)
EXTENDS Naturals, Integers, Sequences, FiniteSets, TLC

(* ------------------------------ bounds --------------------------------- *)

\* TCP connections the environment may open
NConn == 2
\* profile ids 1..NGuid a Connect packet may carry; the last one is banned
NGuid == 3
\* packets the connected peers may send after their handshake, in total
MaxPkts == 3
\* packets the peers may send while peers are still joining, in total
MaxJoinPkts == 1

\* the codec: the padding bytes a frame declares beyond the fields of its
\* kind, and the number of payload patterns
MaxPad == 1
NPat == 3
\* administrative commands the console may issue, in total
MaxAdmin == 1
\* shine ids 1..NShine a Shine packet may carry; the last one is excluded
NShine == 2
\* settings.server.max_players of the modelled configuration
MaxPlayersCfg == 2
\* settings.udp.port_count of the modelled configuration
UdpPortCount == 2

(* --------------------------- program constants ------------------------- *)

\* mpsc::channel(10): the per-client channel
ChanCap == 10
\* mpsc::channel(100): the coordinator's command queue
CoordCap == 100
\* broadcast::channel(100): the client broadcast bus
BusCap == 100
\* Guid::default(), the sender id of packets the server makes
ServerGuid == 0

Conns == 1..NConn
Guids == 1..NGuid
Names == {"A", "B"}
IPs == {"ip1", "ipBanned"}

(* ------------------------------ packets -------------------------------- *)

\* Packet { id, data }: kind is the PacketData variant; s, t, n, m carry the
\* variant's fields (Connect: s = client_name, t = c_type, n = max_player;
\* Init: n = max_players; Game: s = stage, n = scenario_num, t = is_2d;
\* Player: n = pos.y, m = k for rot = rotZ(pi)^k, the rest of pos and rot is
\* left out; Tag: t = update_type, s = is_it, n = seconds, m = minutes; Capture: s = model;
\* Costume: s = body; Shine: n = shine_id, t = is_grand; UdpInit: n = port;
\* ChangeStage: s = id, t = stage, n = scenario, m = sub_scenario)
Pkt(kind, id, s, t, n, m) ==
    [kind |-> kind, id |-> id, s |-> s, t |-> t, n |-> n, m |-> m]

\* Option<Packet>::None
NoPkt == Pkt("None", 0, "", "", 0, 0)

\* ClientCommand::Packet(p) / ClientCommand::SelfAddressed(p)
CPacket(p) == [tag |-> "Packet", p |-> p]
CSelfAddressed(p) == [tag |-> "SelfAddressed", p |-> p]

\* Command::Server(NewPlayer{cli, data, connect_packet, comm}): conn names the
\* connection whose Client, PlayerData and channel the command carries
CmdNewPlayer(c, p) == [tag |-> "NewPlayer", conn |-> c, guid |-> p.id, p |-> p, x |-> ""]
\* Command::Server(DisconnectPlayer{guid})
CmdDisconnectPlayer(g) == [tag |-> "DisconnectPlayer", conn |-> 0, guid |-> g, p |-> NoPkt, x |-> ""]
\* Command::Packet(p)
CmdPacket(p) == [tag |-> "Packet", conn |-> 0, guid |-> p.id, p |-> p, x |-> ""]
\* Command::External(ExternalCommand::Player{players, command}, reply):
\* guid = 0 stands for Players::All, otherwise Players::Individual([guid])
CmdExternal(x, g) == [tag |-> "External", conn |-> 0, guid |-> g, p |-> NoPkt, x |-> x]

\* Command::External(ExternalCommand::Player{players, PlayerCommand::SendShine{id}}, reply)
CmdSendShine(g, id) ==
    [tag |-> "External", conn |-> 0, guid |-> g, p |-> Pkt("Shine", ServerGuid, "", "F", id, 0), x |-> "SendShine"]

\* no command: what the coordinator has taken before its first recv returns
NoCmd == [tag |-> "None", conn |-> 0, guid |-> 0, p |-> NoPkt, x |-> ""]

(* ------------------------------- state --------------------------------- *)

VARIABLES
    pc,          \* per connection: where its task stands
    connect,     \* per connection: the Connect packet read in the handshake
    alive,       \* per connection: Client.alive
    sock,        \* per connection: the packets written to its TCP socket
    chan,        \* per connection: the content of its mpsc channel (to_cli)
    chanOpen,    \* per connection: from_server (the receiver) not yet dropped
    bus,         \* per connection: unread messages of its broadcast receiver
    subscribed,  \* per connection: it holds a broadcast receiver
    players,     \* lobby.players: Guid -> PlayerData
    names,       \* lobby.names: the bijection, a set of <<guid, name>>
    shines,      \* lobby.shines
    settings,    \* lobby.settings
    coordQ,      \* the coordinator's command queue (from_clients)
    coordPc,     \* "idle" (in recv) or "setup" (add_client before setup_player)
    coordCur,    \* the command the coordinator took last from its queue
    coordRes,    \* the Result of the last command: "ok" or "err"
    listening,   \* the listener is in its accept loop
    shutdown,    \* ServerWideCommand::Shutdown has been sent
    nIn,         \* packets read so far from connected peers
    nAdmin,      \* administrative commands issued so far
    tasks,       \* the tasks the coordinator has spawned that have not run yet
    hsErr,       \* per connection: the error initialize_client returned
    discSent,    \* per connection: the commands Client::disconnect has sent
    udp_offset,  \* listen_for_clients: the offset of the next UDP port of the pool
    udp_port,    \* per connection: <<port>> once listen_for_clients has given it a UDP port
    wire         \* a buffer of frame bytes, and what Packet::decode and encode made of it

vars == <<pc, connect, alive, sock, chan, chanOpen, bus, subscribed, players,
          names, shines, settings, coordQ, coordPc, coordCur, coordRes, tasks,
          listening, shutdown, nIn, nAdmin, hsErr, discSent, udp_offset, udp_port, wire>>

connVars == <<pc, connect, alive, sock, chan, chanOpen, bus, subscribed, hsErr, discSent>>
lobbyVars == <<players, names, shines, settings>>
coordVars == <<coordQ, coordPc, coordCur, coordRes, tasks>>
envVars == <<listening, shutdown, nIn, nAdmin>>

\* Client.guid = connect.id
GuidOf(c) == connect[c].id

\* the shine ids peers report; the last one is in settings.shines.excluded
ShineIds == 1..NShine

\* Settings of the modelled server
DefaultSettings ==
    [max_players |-> MaxPlayersCfg,
     initiate_handshake |-> FALSE,
     ban_enabled |-> TRUE,
     ban_players |-> {NGuid},
     ban_ips |-> {"ipBanned"},
     ban_stages |-> {"BannedStage"},
     shines_enabled |-> TRUE,
     excluded |-> {NShine},
     merge_enabled |-> FALSE,
     persist_enabled |-> FALSE,
     flip_enabled |-> FALSE,
     flip_players |-> {},
     flip_pov |-> "Both",
     udp_base_port |-> 0,
     udp_port_count |-> UdpPortCount]

\* no frame has been read
NoWire == [stage |-> "none"]

\* the tasks and channels of a server that has just been built
InitTasks ==
    /\ pc = [c \in Conns |-> "new"]
    /\ connect = [c \in Conns |-> NoPkt]
    /\ alive = [c \in Conns |-> FALSE]
    /\ sock = [c \in Conns |-> <<>>]
    /\ chan = [c \in Conns |-> <<>>]
    /\ chanOpen = [c \in Conns |-> FALSE]
    /\ bus = [c \in Conns |-> <<>>]
    /\ subscribed = [c \in Conns |-> FALSE]
    /\ players = <<>>
    /\ names = {}
    /\ shines = {}
    /\ coordQ = <<>>
    /\ coordPc = "idle"
    /\ coordCur = NoCmd
    /\ coordRes = "ok"
    /\ tasks = <<>>
    /\ listening = TRUE
    /\ shutdown = FALSE
    /\ nIn = 0
    /\ nAdmin = 0
    /\ hsErr = [c \in Conns |-> ""]
    /\ discSent = [c \in Conns |-> <<>>]
    /\ udp_offset = 0
    /\ udp_port = [c \in Conns |-> <<>>]

\* a server built from one of the settings cfgs
InitWith(cfgs) ==
    /\ InitTasks
    /\ settings \in cfgs
    /\ wire = NoWire

Init == InitWith({DefaultSettings})

(* ------------------------------- lobby --------------------------------- *)

\* PlayerData::new(channel) with name set: the record initialize_client builds.
\* time = -1 and is_seeking = "none" stand for None.
NewPlayerData(name, c) ==
    [name |-> name,
     channel |-> c,
     shine_sync |-> {},
     scenario |-> 0,
     is_2d |-> "3d",
     is_seeking |-> "none",
     time |-> -1,
     last_capture_packet |-> NoPkt,
     last_costume_packet |-> NoPkt,
     last_game_packet |-> NoPkt,
     last_player_packet |-> NoPkt,
     disable_shine_sync |-> FALSE,
     loaded_save |-> FALSE]

\* DashMap::insert / DashMap::remove on lobby.players
PutPlayer(pl, g, data) == [x \in (DOMAIN pl) \cup {g} |-> IF x = g THEN data ELSE pl[x]]
DelPlayer(pl, g) == [x \in (DOMAIN pl) \ {g} |-> pl[x]]

\* BiMap::insert: a pair with the same left or the same right value is overwritten
NamesInsert(nm, g, name) == {pr \in nm : pr[1] # g /\ pr[2] # name} \cup {<<g, name>>}
\* BiMap::remove_by_left
NamesRemoveByLeft(nm, g) == {pr \in nm : pr[1] # g}
\* BiMap::contains_left / contains_right
ContainsLeft(nm, g) == \E pr \in nm : pr[1] = g
ContainsRight(nm, name) == \E pr \in nm : pr[2] = name

\* the orders in which an iteration over a DashMap may visit its keys
Perms(S) == {f \in [1..Cardinality(S) -> S] : \A i, j \in 1..Cardinality(S) : i # j => f[i] # f[j]}

\* the elements of a BTreeSet<i32> in iteration (ascending) order
RECURSIVE SortedSeq(_)
SortedSeq(S) ==
    IF S = {} THEN <<>>
    ELSE LET lo == CHOOSE x \in S : \A y \in S : x <= y
         IN <<lo>> \o SortedSeq(S \ {lo})

\* PlayerData::create_tag_packet
create_tag_packet(data, g) ==
    LET update_type ==
            IF data.time # -1 /\ data.is_seeking # "none" THEN "Both"
            ELSE IF data.time # -1 THEN "Time"
            ELSE IF data.is_seeking # "none" THEN "State"
            ELSE "Unknown"
        seconds == IF data.time # -1 THEN data.time ELSE 0
        is_it == IF data.is_seeking = "none" THEN "F" ELSE data.is_seeking
    IN IF update_type = "Unknown" THEN NoPkt
       ELSE Pkt("Tag", g, is_it, update_type, seconds % 60, seconds \div 60)

(* ---------------------- coordinator: sending --------------------------- *)

\* The coordinator's view while it handles one command: the lobby, the
\* channels it sends on, the tasks it spawns, and res, the Result so far
\* ("ok", "err" after a failed send, "block" when a send has to wait for room).
CoordState ==
    [players |-> players, names |-> names, shines |-> shines, chan |-> chan,
     bus |-> bus, tasks |-> tasks, res |-> "ok"]

\* broadcast::Sender::send: every receiver gets the message, the oldest one is
\* dropped from a full receiver, and with no receiver the send fails
BusPut(bs, cmd) ==
    [c \in Conns |->
        IF ~subscribed[c] THEN bs[c]
        ELSE IF Len(bs[c]) >= BusCap THEN Append(Tail(bs[c]), cmd)
        ELSE Append(bs[c], cmd)]

\* Coordinator::broadcast(cmd)?
Bcast(st, cmd) ==
    IF st.res # "ok" THEN st
    ELSE IF \A c \in Conns : ~subscribed[c] THEN [st EXCEPT !.res = "err"]
    ELSE [st EXCEPT !.bus = BusPut(st.bus, cmd)]

\* channel.send(cmd).await? on the mpsc channel of connection c
Send(st, c, cmd) ==
    IF st.res # "ok" THEN st
    ELSE IF ~chanOpen[c] THEN [st EXCEPT !.res = "err"]
    ELSE IF Len(st.chan[c]) >= ChanCap THEN [st EXCEPT !.res = "block"]
    ELSE [st EXCEPT !.chan[c] = Append(@, cmd)]

\* a run of sends: to = 0 is the broadcast bus, otherwise a client channel
RECURSIVE RunOps(_, _)
RunOps(ops, st) ==
    IF ops = <<>> THEN st
    ELSE LET op == Head(ops)
         IN RunOps(Tail(ops),
                   IF op.to = 0 THEN Bcast(st, op.cmd) ELSE Send(st, op.to, op.cmd))

ToChan(c, cmd) == [to |-> c, cmd |-> cmd]
ToBus(cmd) == [to |-> 0, cmd |-> cmd]

\* the Some(_) entries of an array of Option<Packet>
Present(pkts) == SelectSeq(pkts, LAMBDA p : p # NoPkt)

(* ---------------------- coordinator: handlers -------------------------- *)

\* setup_player, "Sync other players to the new player": what the loop over
\* lobby.players sends for the entry other_id
SyncPackets(pl, other_id, max_player) ==
    Present(<<Pkt("Connect", other_id, pl[other_id].name, "FirstConnection", max_player, 0),
              pl[other_id].last_costume_packet,
              pl[other_id].last_capture_packet,
              create_tag_packet(pl[other_id], other_id),
              pl[other_id].last_game_packet,
              pl[other_id].last_player_packet>>)

\* the entries of lobby.players the loop of setup_player visits for the new
\* player new_id: `for other_ref in self.lobby.players.iter()`
SyncEntries(pl, new_id) == DOMAIN pl

\* the sends of that loop, the entries visited in the order `order`
RECURSIVE SetupPlayerSync(_, _, _, _)
SetupPlayerSync(comm, order, pl, max_player) ==
    IF order = <<>> THEN <<>>
    ELSE LET pkts == SyncPackets(pl, Head(order), max_player)
         IN [i \in 1..Len(pkts) |-> ToChan(comm, CPacket(pkts[i]))]
            \o SetupPlayerSync(comm, Tail(order), pl, max_player)

\* a setup_player that resets the puppet caches on every connection type
SetupPlayerBroadcastsAlways(packet) ==
    <<ToBus(CPacket(packet)),
      ToBus(CPacket(Pkt("Tag", packet.id, "F", "Both", 0, 0))),
      ToBus(CPacket(Pkt("Capture", packet.id, "", "", 0, 0)))>>

\* setup_player, "Sync new player to other players": the broadcasts
SetupPlayerBroadcasts(packet) ==
    <<ToBus(CPacket(packet))>>
    \o (IF packet.t = "FirstConnection"
        THEN <<ToBus(CPacket(Pkt("Tag", packet.id, "F", "Both", 0, 0))),
               ToBus(CPacket(Pkt("Capture", packet.id, "", "", 0, 0)))>>
        ELSE <<>>)

\* Coordinator::setup_player(comm, packet)
setup_player(comm, packet, order, st) ==
    RunOps(SetupPlayerSync(comm, order, st.players, settings.max_players)
           \o SetupPlayerBroadcasts(packet), st)

\* a disconnect_player that leaves the name of the removed player bound
disconnect_player_keeps_name(g, st) ==
    IF st.res # "ok" \/ g \notin DOMAIN st.players THEN st
    ELSE LET data == st.players[g]
             packet == Pkt("Disconnect", g, "", "", 0, 0)
             removed == [st EXCEPT !.players = DelPlayer(@, g)]
         IN RunOps(<<ToBus(CPacket(packet)), ToChan(data.channel, CPacket(packet))>>, removed)

\* Coordinator::disconnect_player(guid)
disconnect_player(g, st) ==
    IF st.res # "ok" \/ g \notin DOMAIN st.players THEN st
    ELSE LET data == st.players[g]
             packet == Pkt("Disconnect", g, "", "", 0, 0)
             removed == [st EXCEPT !.players = DelPlayer(@, g),
                                   !.names = NamesRemoveByLeft(@, g)]
         IN RunOps(<<ToBus(CPacket(packet)), ToChan(data.channel, CPacket(packet))>>, removed)

\* `for guid in guids { self.disconnect_player(guid).await?; }`
RECURSIVE DisconnectEach(_, _)
DisconnectEach(guids, st) ==
    IF guids = <<>> THEN st
    ELSE DisconnectEach(Tail(guids), disconnect_player(Head(guids), st))

\* the rest of add_client once the client task is spawned: setup_player, and
\* disconnect_player(id) before the error is returned when it failed
add_client_setup(cmd, order, st) ==
    LET r == setup_player(cmd.conn, cmd.p, order, st)
    IN IF r.res # "err" THEN r
       ELSE LET d == disconnect_player(cmd.guid, [r EXCEPT !.res = "ok"])
            IN [d EXCEPT !.res = IF d.res = "block" THEN "block" ELSE "err"]

\* a client_sync_shines that sends every shine of the server, whatever the
\* client has
client_sync_shinesAll(st, to_client, guid, client_shines) ==
    LET every == SortedSeq(st.shines)
    IN RunOps([i \in 1..Len(every) |->
                  ToChan(to_client, CSelfAddressed(Pkt("Shine", guid, "", "F", every[i], 0)))],
              st)

\* client_sync_shines(to_client, shine_bag, guid, client_shines)
client_sync_shines(st, to_client, guid, client_shines) ==
    LET mismatch == SortedSeq(st.shines \ client_shines)
    IN RunOps([i \in 1..Len(mismatch) |->
                  ToChan(to_client, CSelfAddressed(Pkt("Shine", guid, "", "F", mismatch[i], 0)))],
              st)

\* the loop of sync_all_shines over lobby.players
RECURSIVE SyncEachPlayer(_, _)
SyncEachPlayer(order, st) ==
    IF order = <<>> \/ st.res # "ok" THEN st
    ELSE LET player == st.players[Head(order)]
         IN SyncEachPlayer(Tail(order),
                IF player.disable_shine_sync THEN st
                ELSE client_sync_shines(st, player.channel, ServerGuid,
                                        player.shine_sync \cup settings.excluded))

\* Coordinator::sync_all_shines
sync_all_shines(st, order) ==
    IF st.res # "ok" \/ ~settings.shines_enabled THEN st
    ELSE SyncEachPlayer(order, st)

\* tokio::spawn of a task that runs later
Spawn(st, kind, g) ==
    IF st.res # "ok" THEN st ELSE [st EXCEPT !.tasks = Append(@, [kind |-> kind, guid |-> g])]

\* Coordinator::persist_shines
persist_shines(st) == IF settings.persist_enabled THEN Spawn(st, "persist", 0) ELSE st

\* a coordinator for which no Game packet is that of a new save file
IsNewSaveNever(p) == FALSE

\* the stage and scenario of a new save file before Cascade
IsNewSave(p) == p.s \in {"CapWorldHomeStage", "CapWorldTowerStage"} /\ p.n = 1

\* a merge_scenario that publishes nothing
merge_scenarioSilent(st, p) == st

\* Coordinator::merge_scenario(packet)
merge_scenario(st, p) == Bcast(st, CSelfAddressed(p))

\* a coordinator for which no stage is banned
IsStageBannedNever(p) == FALSE

\* handle_command, PacketData::Game: is_stage_banned
IsStageBanned(p) == settings.ban_enabled /\ p.s \in settings.ban_stages

\* handle_command, Command::Packet with PacketData::Game
HandleGame(p, st) ==
    IF IsStageBanned(p)
    THEN Spawn(st, "crash", p.id)
    ELSE IF p.id \notin DOMAIN st.players
    THEN [st EXCEPT !.res = "err"]
    ELSE LET is_shine_sync_disabled == st.players[p.id].disable_shine_sync
             gated ==
                 IF IsNewSave(p)
                 THEN IF ~is_shine_sync_disabled
                      THEN persist_shines(
                               [st EXCEPT !.players[p.id].disable_shine_sync = TRUE,
                                          !.players[p.id].shine_sync = {},
                                          !.shines = {}])
                      ELSE st
                 ELSE IF is_shine_sync_disabled
                      THEN Spawn(st, "reenable", p.id)
                      ELSE st
             merged == IF settings.merge_enabled THEN merge_scenario(gated, p) ELSE gated
         IN Bcast(merged, CPacket(p))

\* a handle_command that publishes a Shine packet once the shines are synced
HandlePacketCmdShineBroadcast(p, order, st) ==
    IF p.kind = "Costume" THEN Bcast(sync_all_shines(st, order), CPacket(p))
    ELSE IF p.kind = "Shine"
    THEN IF p.n \in settings.excluded THEN st
         ELSE Bcast(sync_all_shines([st EXCEPT !.shines = @ \cup {p.n}], order), CPacket(p))
    ELSE IF p.kind = "Game" THEN HandleGame(p, st)
    ELSE Bcast(st, CPacket(p))

\* handle_command, Command::Packet
HandlePacketCmd(p, order, st) ==
    IF p.kind = "Costume" THEN Bcast(sync_all_shines(st, order), CPacket(p))
    ELSE IF p.kind = "Shine"
    THEN IF p.n \in settings.excluded THEN st
         ELSE sync_all_shines([st EXCEPT !.shines = @ \cup {p.n}], order)
    ELSE IF p.kind = "Game" THEN HandleGame(p, st)
    ELSE Bcast(st, CPacket(p))

\* a send_players that skips a guid that is not in the lobby
send_playersLenient(g, cmd, st) ==
    IF g = 0 THEN Bcast(st, cmd)
    ELSE IF g \notin DOMAIN st.players THEN st
    ELSE Send(st, st.players[g].channel, cmd)

\* Coordinator::send_players(players, cmd): g = 0 is Players::All
send_players(g, cmd, st) ==
    IF g = 0 THEN Bcast(st, cmd)
    ELSE IF g \notin DOMAIN st.players THEN [st EXCEPT !.res = "err"]
    ELSE Send(st, st.players[g].channel, cmd)

\* Coordinator::handle_external_cmd
handle_external_cmd(cmd, order, st) ==
    IF cmd.x = "Disconnect"
    THEN DisconnectEach(IF cmd.guid = 0 THEN order ELSE <<cmd.guid>>, st)
    ELSE IF cmd.x = "Crash"
    THEN send_players(cmd.guid,
             CSelfAddressed(Pkt("ChangeStage", ServerGuid, "$among$us/cr4sh%", "$agogusStage", 21, 69)),
             st)
    ELSE IF cmd.x = "SendShine"
    THEN send_players(cmd.guid, CSelfAddressed(Pkt("Shine", ServerGuid, "", "F", cmd.p.n, 0)), st)
    ELSE IF cmd.x = "ShineSync"
    THEN sync_all_shines(st, order)
    ELSE [st EXCEPT !.shines = {},
                    !.players = [x \in DOMAIN st.players |-> [st.players[x] EXCEPT !.shine_sync = {}]]]

\* the coordinator's view becomes the state when the command is done
Commit(r) ==
    /\ r.res # "block"
    /\ players' = r.players
    /\ names' = r.names
    /\ shines' = r.shines
    /\ chan' = r.chan
    /\ bus' = r.bus
    /\ tasks' = r.tasks
    /\ coordRes' = r.res

\* handle_commands took a command of kind tag from from_clients
CoordTakes(tag) == coordPc = "idle" /\ coordQ # <<>> /\ Head(coordQ).tag = tag

\* add_client up to tokio::spawn(cli.handle_events()): the entry is inserted
\* in names and players, and the client task starts to run
CoordAddClient ==
    /\ CoordTakes("NewPlayer")
    /\ LET cmd == Head(coordQ)
       IN /\ names' = NamesInsert(names, cmd.guid, cmd.p.s)
          /\ players' = PutPlayer(players, cmd.guid, NewPlayerData(cmd.p.s, cmd.conn))
          /\ pc' = [pc EXCEPT ![cmd.conn] = "run"]
          /\ coordCur' = cmd
    /\ coordQ' = Tail(coordQ)
    /\ coordPc' = "setup"
    /\ UNCHANGED <<connect, alive, sock, chan, chanOpen, bus, subscribed, shines,
                   settings, coordRes, tasks, envVars, hsErr, discSent, udp_offset, udp_port, wire>>

\* add_client from setup_player on
CoordSetupPlayer ==
    /\ coordPc = "setup"
    /\ \E order \in Perms(SyncEntries(players, coordCur.guid)) :
          \E r \in {add_client_setup(coordCur, order, CoordState)} : Commit(r)
    /\ coordPc' = "idle"
    /\ UNCHANGED <<pc, connect, alive, sock, chanOpen, subscribed, settings, coordQ,
                   coordCur, envVars, hsErr, discSent, udp_offset, udp_port, wire>>

\* handle_command, ServerCommand::DisconnectPlayer
CoordDisconnectPlayer ==
    /\ CoordTakes("DisconnectPlayer")
    /\ \E r \in {disconnect_player(Head(coordQ).guid, CoordState)} : Commit(r)
    /\ coordQ' = Tail(coordQ)
    /\ coordCur' = Head(coordQ)
    /\ UNCHANGED <<pc, connect, alive, sock, chanOpen, subscribed, settings, coordPc,
                   envVars, hsErr, discSent, udp_offset, udp_port, wire>>

\* handle_command, Command::Packet
CoordPacket ==
    /\ CoordTakes("Packet")
    /\ \E order \in Perms(DOMAIN players) :
          \E r \in {HandlePacketCmd(Head(coordQ).p, order, CoordState)} : Commit(r)
    /\ coordQ' = Tail(coordQ)
    /\ coordCur' = Head(coordQ)
    /\ UNCHANGED <<pc, connect, alive, sock, chanOpen, subscribed, settings, coordPc,
                   envVars, hsErr, discSent, udp_offset, udp_port, wire>>

\* handle_command, Command::External
CoordExternal ==
    /\ CoordTakes("External")
    /\ \E order \in Perms(DOMAIN players) :
          \E r \in {handle_external_cmd(Head(coordQ), order, CoordState)} : Commit(r)
    /\ coordQ' = Tail(coordQ)
    /\ coordCur' = Head(coordQ)
    /\ UNCHANGED <<pc, connect, alive, sock, chanOpen, subscribed, settings, coordPc,
                   envVars, hsErr, discSent, udp_offset, udp_port, wire>>

(* ------------------------ coordinator: spawned tasks ------------------- *)

\* a sequence without its i-th element
RemoveAt(seq, i) == [j \in 1..(Len(seq) - 1) |-> IF j < i THEN seq[j] ELSE seq[j + 1]]

\* the task handle_command spawns for a Game packet of a banned stage: after
\* 500 ms it posts PlayerCommand::Crash for the sender on the coordinator's queue
TaskCrash(i) ==
    /\ i \in 1..Len(tasks)
    /\ tasks[i].kind = "crash"
    /\ Len(coordQ) < CoordCap
    /\ coordQ' = Append(coordQ, CmdExternal("Crash", tasks[i].guid))
    /\ tasks' = RemoveAt(tasks, i)
    /\ UNCHANGED <<connVars, lobbyVars, coordPc, coordCur, coordRes, envVars, udp_offset, udp_port, wire>>

\* a task that clears the flag and sends the player nothing
reenable_shine_syncSilent(g, st) ==
    IF g \notin DOMAIN st.players THEN [st EXCEPT !.res = "err"]
    ELSE [st EXCEPT !.players[g].disable_shine_sync = FALSE]

\* the re-enable task: what it leaves in the lobby and on the channels.  It
\* returns early when the player is gone; otherwise it clears
\* disable_shine_sync and, with shines.enabled, runs client_sync_shines with
\* the player's own id as the sender
reenable_shine_sync(g, st) ==
    IF g \notin DOMAIN st.players THEN [st EXCEPT !.res = "err"]
    ELSE LET cleared == [st EXCEPT !.players[g].disable_shine_sync = FALSE]
             player == cleared.players[g]
         IN IF ~settings.shines_enabled THEN cleared
            ELSE client_sync_shines(cleared, player.channel, g,
                                    player.shine_sync \cup settings.excluded)

\* the task handle_command spawns for a Game packet past the new save of a
\* player whose shine sync is disabled, once its 2000 ms sleep is over
TaskReenable(i) ==
    /\ i \in 1..Len(tasks)
    /\ tasks[i].kind = "reenable"
    /\ LET r == reenable_shine_sync(tasks[i].guid, CoordState)
       IN /\ r.res # "block"
          /\ players' = r.players
          /\ chan' = r.chan
    /\ tasks' = RemoveAt(tasks, i)
    /\ UNCHANGED <<pc, connect, alive, sock, chanOpen, bus, subscribed, names, shines,
                   settings, coordQ, coordPc, coordCur, coordRes, envVars, hsErr, discSent, udp_offset, udp_port, wire>>

\* the task persist_shines spawns: save_shines writes lobby.shines to the
\* file settings.persist_shines.filename, which the running server never reads
TaskPersist(i) ==
    /\ i \in 1..Len(tasks)
    /\ tasks[i].kind = "persist"
    /\ tasks' = RemoveAt(tasks, i)
    /\ UNCHANGED <<connVars, lobbyVars, coordQ, coordPc, coordCur, coordRes, envVars,
                   udp_offset, udp_port, wire>>

(* ------------------------- listener, handshake ------------------------- *)

\* the Init packet of the handshake
InitPacket(max_players) == Pkt("Init", ServerGuid, "", "", max_players, 0)

\* a listener that lets every connection shake hands
RoutedToIgnoreNever(ip) == FALSE

\* listen_for_clients: the checks that route an accepted connection to the
\* ignore path
RoutedToIgnore(ip) ==
    \/ ip \in settings.ban_ips
    \/ settings.max_players <= Cardinality(DOMAIN players)

\* listen_for_clients accepts connection c from address ip: either
\* ignore_client is spawned (which first writes Init{max_players: 1}) or
\* initialize_client is (which first creates the client's channel and then
\* waits for the first packet).  Connections are numbered in accept order.
\* udp_port_data.0 + udp_offset is a u16 sum: above 65535 it wraps in a build
\* without overflow checks and panics in a build with them; udp_offset %= 0
\* panics in every build.  A panic ends the listener task and drops the
\* connection.
Accept(c, ip) ==
    /\ listening
    /\ pc[c] = "new"
    /\ \A d \in Conns : d < c => pc[d] # "new"
    /\ IF RoutedToIgnore(ip)
       THEN /\ pc' = [pc EXCEPT ![c] = "ignore"]
            /\ sock' = [sock EXCEPT ![c] = Append(@, InitPacket(1))]
            /\ UNCHANGED <<chanOpen, udp_offset, udp_port, listening>>
       ELSE \/ /\ settings.udp_port_count # 0
               /\ pc' = [pc EXCEPT ![c] = "hs"]
               /\ chanOpen' = [chanOpen EXCEPT ![c] = TRUE]
               /\ udp_port' = [udp_port EXCEPT
                                 ![c] = <<(settings.udp_base_port + udp_offset) % 65536>>]
               /\ udp_offset' = (udp_offset + 1) % settings.udp_port_count
               /\ UNCHANGED <<sock, listening>>
            \/ /\ \/ settings.udp_port_count = 0
                  \/ settings.udp_base_port + udp_offset >= 65536
               /\ pc' = [pc EXCEPT ![c] = "dropped"]
               /\ listening' = FALSE
               /\ UNCHANGED <<sock, chanOpen, udp_offset, udp_port>>
    /\ UNCHANGED <<connect, alive, chan, bus, subscribed, lobbyVars, coordVars,
                   shutdown, nIn, nAdmin, hsErr, discSent, wire>>

\* a handshake without the ban check
IsBannedNever(p) == FALSE

\* initialize_client: settings.ban_list.players.contains(&connect.id)
IsBannedProfile(p) == p.id \in settings.ban_players

\* a duplicate check that looks at the profile id alone
EntryExistsById(p) == ContainsLeft(names, p.id)

\* initialize_client: entry_exists, the duplicate check of a FirstConnection
EntryExists(p) == ContainsLeft(names, p.id) \/ ContainsRight(names, p.s)

\* initialize_client: whether the Connect packet p is refused as a duplicate
DuplicateClient(p) == p.t = "FirstConnection" /\ EntryExists(p)

\* what initialize_client writes once it has read the Connect packet of a
\* profile that is not banned
WrittenAfterConnect == <<InitPacket(settings.max_players)>>

\* initialize_client reads the first packet p of connection c and runs up to
\* the construction of the NewPlayer command; bind_ok is whether
\* UdpSocket::bind succeeds
HsRead(c, p, bind_ok) ==
    /\ pc[c] = "hs"
    /\ IF p.kind # "Connect"
       THEN /\ pc' = [pc EXCEPT ![c] = "failed"]
            /\ hsErr' = [hsErr EXCEPT ![c] = "BadHandshake"]
            /\ chanOpen' = [chanOpen EXCEPT ![c] = FALSE]
            /\ UNCHANGED <<connect, alive, sock, subscribed>>
       ELSE IF IsBannedProfile(p)
       THEN /\ pc' = [pc EXCEPT ![c] = "ignore"]
            /\ connect' = [connect EXCEPT ![c] = p]
            /\ sock' = [sock EXCEPT ![c] = Append(@, InitPacket(1))]
            /\ UNCHANGED <<alive, chanOpen, subscribed, hsErr>>
       ELSE IF DuplicateClient(p)
       THEN /\ pc' = [pc EXCEPT ![c] = "failed"]
            /\ hsErr' = [hsErr EXCEPT ![c] = "DuplicateClient"]
            /\ connect' = [connect EXCEPT ![c] = p]
            /\ sock' = [sock EXCEPT ![c] = @ \o WrittenAfterConnect]
            /\ chanOpen' = [chanOpen EXCEPT ![c] = FALSE]
            /\ UNCHANGED <<alive, subscribed>>
       ELSE IF ~bind_ok
       THEN /\ pc' = [pc EXCEPT ![c] = "failed"]
            /\ hsErr' = [hsErr EXCEPT ![c] = "Io"]
            /\ connect' = [connect EXCEPT ![c] = p]
            /\ sock' = [sock EXCEPT ![c] = @ \o WrittenAfterConnect]
            /\ chanOpen' = [chanOpen EXCEPT ![c] = FALSE]
            /\ UNCHANGED <<alive, subscribed>>
       ELSE /\ pc' = [pc EXCEPT ![c] = "hs_send"]
            /\ connect' = [connect EXCEPT ![c] = p]
            /\ alive' = [alive EXCEPT ![c] = TRUE]
            /\ sock' = [sock EXCEPT ![c] = @ \o WrittenAfterConnect
                          \o (IF settings.initiate_handshake
                              THEN <<Pkt("UdpInit", ServerGuid, "", "", 0, 0)>>
                              ELSE <<>>)]
            /\ subscribed' = [subscribed EXCEPT ![c] = TRUE]
            /\ UNCHANGED <<chanOpen, hsErr>>
    /\ UNCHANGED <<chan, bus, lobbyVars, coordVars, envVars, discSent, udp_offset, udp_port, wire>>

\* initialize_client: conn.read_packet() fails, the peer closed the connection
HsClosed(c) ==
    /\ pc[c] = "hs"
    /\ pc' = [pc EXCEPT ![c] = "failed"]
    /\ hsErr' = [hsErr EXCEPT ![c] = "ConnectionClose"]
    /\ chanOpen' = [chanOpen EXCEPT ![c] = FALSE]
    /\ UNCHANGED <<connect, alive, sock, chan, bus, subscribed, lobbyVars, coordVars,
                   envVars, discSent, udp_offset, udp_port, wire>>

\* initialize_client: to_coord.send(new_player).await
HsSend(c) ==
    /\ pc[c] = "hs_send"
    /\ Len(coordQ) < CoordCap
    /\ coordQ' = Append(coordQ, CmdNewPlayer(c, connect[c]))
    /\ pc' = [pc EXCEPT ![c] = "queued"]
    /\ UNCHANGED <<connect, alive, sock, chan, chanOpen, bus, subscribed, lobbyVars,
                   coordPc, coordCur, coordRes, tasks, envVars, hsErr, discSent, udp_offset, udp_port, wire>>

(* ----------------------------- ignore path ----------------------------- *)

\* an ignore_client that sends the crash for the first Game packet only
IgnoreRecvOnce(c, kind) ==
    /\ pc[c] = "ignore"
    /\ nIn < MaxPkts
    /\ nIn' = nIn + 1
    /\ sock' = [sock EXCEPT ![c] =
                  IF kind = "Game" /\ \A i \in DOMAIN sock[c] : sock[c][i].kind # "ChangeStage"
                  THEN Append(@, Pkt("ChangeStage", ServerGuid, "$among$us/SubArea", "$agogusStage", 21, 69))
                  ELSE @]
    /\ UNCHANGED <<pc, connect, alive, chan, chanOpen, bus, subscribed, lobbyVars,
                   coordVars, listening, shutdown, nAdmin, hsErr, discSent, udp_offset, udp_port, wire>>

\* ignore_client: one turn of the loop on a packet of kind `kind`
IgnoreRecv(c, kind) ==
    /\ pc[c] = "ignore"
    /\ nIn < MaxPkts
    /\ nIn' = nIn + 1
    /\ sock' = [sock EXCEPT ![c] =
                  IF kind = "Game"
                  THEN Append(@, Pkt("ChangeStage", ServerGuid, "$among$us/SubArea", "$agogusStage", 21, 69))
                  ELSE @]
    /\ UNCHANGED <<pc, connect, alive, chan, chanOpen, bus, subscribed, lobbyVars,
                   coordVars, listening, shutdown, nAdmin, hsErr, discSent, udp_offset, udp_port, wire>>

\* ignore_client: read_packet fails and the loop breaks; initialize_client
\* then returns BannedID when it was the caller
IgnoreClosed(c) ==
    /\ pc[c] = "ignore"
    /\ IF connect[c] # NoPkt
       THEN /\ pc' = [pc EXCEPT ![c] = "failed"]
            /\ hsErr' = [hsErr EXCEPT ![c] = "BannedID"]
            /\ chanOpen' = [chanOpen EXCEPT ![c] = FALSE]
       ELSE /\ pc' = [pc EXCEPT ![c] = "closed"]
            /\ UNCHANGED <<hsErr, chanOpen>>
    /\ UNCHANGED <<connect, alive, sock, chan, bus, subscribed, lobbyVars, coordVars,
                   envVars, discSent, udp_offset, udp_port, wire>>

(* ----------------------------- client task ----------------------------- *)

\* a handle_packet that publishes every packet on the bus
PacketDestinationBroadcast(kind) == "Broadcast"

\* handle_packet: the PacketDestination the match gives a packet of this kind
PacketDestination(kind) ==
    IF kind \in {"Player", "Costume", "Game", "Shine"} THEN "Coordinator"
    ELSE IF kind \in {"UdpInit", "HolePunch"} THEN "NoSend"
    ELSE "Broadcast"

\* FlipPovSettings::is_others_flip / is_self_flip
is_others_flip(pov) == pov \in {"Both", "Others"}
is_self_flip(pov) == pov \in {"Both", "Player"}

\* a server that flips no inbound Player packet
FlipsInboundNever(p) == FALSE

\* handle_packet, PacketData::Player: the condition of the flip
FlipsInbound(p) ==
    /\ settings.flip_enabled
    /\ is_others_flip(settings.flip_pov)
    /\ p.id \in settings.flip_players

\* handle_command, ClientCommand::Packet with PacketData::Player of another
\* guid: the condition of the flip
FlipsOutbound(c, p) ==
    /\ settings.flip_enabled
    /\ is_self_flip(settings.flip_pov)
    /\ GuidOf(c) \in settings.flip_players
    /\ p.id \notin settings.flip_players

\* the flip: pos += get_mario_size(is_2d) * Vector3::y(), and rot *= the
\* rotation by pi about the z axis
Flip(p, is_2d) ==
    [p EXCEPT !.n = @ + (IF is_2d = "2d" THEN 180 ELSE 160), !.m = (@ + 1) % 4]

\* a handle_packet that keeps last_player_packet on every Game packet
StageChangedNever(data, p) == FALSE

\* handle_packet, PacketData::Game: a Game packet is cached and its stage
\* differs from the stage of the packet p
StageChanged(data, p) == data.last_game_packet # NoPkt /\ p.s # data.last_game_packet.s

\* handle_packet: the match on packet.data.  The result names the destination
\* (PacketDestination), the lobby.players after the side effect, whether
\* get_player_mut() panicked (no PlayerData under self.guid) and whether
\* get_mut_client() returned an error.
HandlePacket(c, p) ==
    LET g == GuidOf(c)
        has == g \in DOMAIN players
        data == players[g]
        out(pl) == [dest |-> PacketDestination(p.kind), players |-> pl, pkt |-> p,
                    panic |-> FALSE, err |-> FALSE]
        panic == [dest |-> "NoSend", players |-> players, pkt |-> p,
                  panic |-> TRUE, err |-> FALSE]
        secs == p.n + p.m * 60
        flipped == IF FlipsInbound(p) THEN Flip(p, data.is_2d) ELSE p
    IN IF p.kind = "Player"
       THEN IF FlipsInbound(p) /\ ~has THEN panic
            ELSE IF has
            THEN [out([players EXCEPT ![g].last_player_packet = flipped]) EXCEPT !.pkt = flipped]
            ELSE [dest |-> "NoSend", players |-> players, pkt |-> p,
                  panic |-> FALSE, err |-> TRUE]
       ELSE IF p.kind \notin {"Capture", "Costume", "Game", "Tag", "Shine"}
       THEN out(players)
       ELSE IF ~has THEN panic
       ELSE IF p.kind = "Capture"
       THEN out([players EXCEPT ![g].last_capture_packet = p])
       ELSE IF p.kind = "Costume"
       THEN out([players EXCEPT ![g].loaded_save = TRUE,
                                ![g].last_costume_packet = p])
       ELSE IF p.kind = "Game"
       THEN out([players EXCEPT
                    ![g].is_2d = p.t,
                    ![g].scenario = p.n,
                    ![g].last_player_packet = IF StageChanged(data, p) THEN NoPkt ELSE @,
                    ![g].last_game_packet = p])
       ELSE IF p.kind = "Tag"
       THEN out([players EXCEPT
                    ![g].time = IF p.t \in {"Time", "Both"} THEN secs ELSE @,
                    ![g].is_seeking = IF p.t \in {"State", "Both"} THEN p.s ELSE @])
       ELSE out([players EXCEPT ![g].shine_sync = IF data.loaded_save THEN @ \cup {p.n} ELSE @])

\* the Client is dropped: its channel receiver and its broadcast receiver go
Dropped(c) ==
    /\ chanOpen' = [chanOpen EXCEPT ![c] = FALSE]
    /\ subscribed' = [subscribed EXCEPT ![c] = FALSE]
    /\ chan' = [chan EXCEPT ![c] = <<>>]
    /\ bus' = [bus EXCEPT ![c] = <<>>]

\* handle_events: read_event yields Incoming(p) from the socket, and
\* handle_packet(p) runs
ClientRecvPacket(c, p) ==
    /\ pc[c] = "run"
    /\ nIn < MaxPkts
    /\ nIn' = nIn + 1
    /\ LET h == HandlePacket(c, p)
       IN IF h.panic
          THEN /\ pc' = [pc EXCEPT ![c] = "panicked"]
               /\ Dropped(c)
               /\ UNCHANGED <<players, coordQ>>
          ELSE /\ players' = h.players
               /\ UNCHANGED <<pc, chan, chanOpen, subscribed>>
               /\ IF h.dest = "Broadcast"
                  THEN bus' = BusPut(bus, CPacket(h.pkt)) /\ UNCHANGED coordQ
                  ELSE IF h.dest = "Coordinator"
                  THEN /\ Len(coordQ) < CoordCap
                       /\ coordQ' = Append(coordQ, CmdPacket(h.pkt))
                       /\ UNCHANGED bus
                  ELSE UNCHANGED <<bus, coordQ>>
    /\ UNCHANGED <<connect, alive, sock, names, shines, settings, coordPc, coordCur,
                   coordRes, tasks, listening, shutdown, nAdmin, hsErr, discSent, udp_offset, udp_port, wire>>

\* handle_events: read_event yields Incoming(p) from the socket of a peer that
\* sends without pause, and handle_packet(p) runs; when the coordinator's
\* queue is full the task waits in to_coord.send(..).await ("send"), where
\* it takes nothing from its channel or from the bus
ClientRecvBurst(c, p) ==
    /\ pc[c] = "run"
    /\ PacketDestination(p.kind) = "Coordinator"
    /\ ~HandlePacket(c, p).panic
    /\ ~HandlePacket(c, p).err
    /\ players' = HandlePacket(c, p).players
    /\ IF Len(coordQ) < CoordCap
       THEN coordQ' = Append(coordQ, CmdPacket(HandlePacket(c, p).pkt)) /\ UNCHANGED pc
       ELSE pc' = [pc EXCEPT ![c] = "send"] /\ UNCHANGED coordQ
    /\ UNCHANGED <<connect, alive, sock, chan, chanOpen, bus, subscribed, names, shines,
                   settings, coordPc, coordCur, coordRes, tasks, envVars, hsErr, discSent,
                   udp_offset, udp_port, wire>>

\* to_coord.send(Command::Packet(packet)).await returns: the queue has room
\* for the packet p the task was waiting to send
ClientSendResume(c, p) ==
    /\ pc[c] = "send"
    /\ Len(coordQ) < CoordCap
    /\ coordQ' = Append(coordQ, CmdPacket(p))
    /\ pc' = [pc EXCEPT ![c] = "run"]
    /\ UNCHANGED <<connect, alive, sock, chan, chanOpen, bus, subscribed, lobbyVars,
                   coordPc, coordCur, coordRes, tasks, envVars, hsErr, discSent,
                   udp_offset, udp_port, wire>>

\* handle_events: read_event fails with an error of severity ClientFatal (the
\* peer closed or reset the connection): alive = false and the loop breaks
ClientReadFatal(c) ==
    /\ pc[c] = "run"
    /\ alive' = [alive EXCEPT ![c] = FALSE]
    /\ pc' = [pc EXCEPT ![c] = "disc"]
    /\ UNCHANGED <<connect, sock, chan, chanOpen, bus, subscribed, lobbyVars, coordVars,
                   envVars, hsErr, discSent, udp_offset, udp_port, wire>>

\* a handle_command in which no command clears self.alive
ClearsAliveNever(c, cmd) == FALSE

\* handle_command: whether the command clears self.alive
ClearsAlive(c, cmd) ==
    /\ cmd.p.kind = "Disconnect"
    /\ cmd.tag = "Packet" => cmd.p.id = GuidOf(c)

\* a handle_command that also writes the packets of its own guid
WrittenAll(c, cmd) ==
    IF cmd.tag = "Packet" THEN <<cmd.p>> ELSE <<[cmd.p EXCEPT !.id = GuidOf(c)]>>

\* a handle_command that sends a SelfAddressed packet with the id it came with
WrittenAsSent(c, cmd) ==
    IF cmd.tag = "Packet"
    THEN IF cmd.p.id = GuidOf(c) THEN <<>> ELSE <<cmd.p>>
    ELSE <<cmd.p>>

\* handle_command: the Player packet of another guid is flipped, which reads
\* the PlayerData of this client with get_player()
OutFlips(c, cmd) ==
    /\ cmd.tag = "Packet"
    /\ cmd.p.id # GuidOf(c)
    /\ cmd.p.kind = "Player"
    /\ FlipsOutbound(c, cmd.p)

\* handle_command: the packets the command makes the task write to its socket
Written(c, cmd) ==
    IF cmd.tag = "Packet"
    THEN IF cmd.p.id = GuidOf(c) THEN <<>>
         ELSE IF OutFlips(c, cmd) THEN <<Flip(cmd.p, players[GuidOf(c)].is_2d)>>
         ELSE <<cmd.p>>
    ELSE <<[cmd.p EXCEPT !.id = GuidOf(c)]>>

\* handle_command: a SelfAddressed Shine is recorded with get_player_mut()
RecordsShine(cmd) == cmd.tag = "SelfAddressed" /\ cmd.p.kind = "Shine"

\* handle_events: handle_command(cmd) runs, and the loop condition
\* `while self.alive` is evaluated
HandleCommand(c, cmd) ==
    IF (RecordsShine(cmd) \/ OutFlips(c, cmd)) /\ GuidOf(c) \notin DOMAIN players
    THEN /\ pc' = [pc EXCEPT ![c] = "panicked"]
         /\ UNCHANGED <<alive, sock, players>>
    ELSE /\ alive' = [alive EXCEPT ![c] = ~ClearsAlive(c, cmd)]
         /\ pc' = [pc EXCEPT ![c] = IF ClearsAlive(c, cmd) THEN "disc" ELSE "run"]
         /\ sock' = [sock EXCEPT ![c] = @ \o Written(c, cmd)]
         /\ players' = IF RecordsShine(cmd)
                       THEN [players EXCEPT ![GuidOf(c)].shine_sync = @ \cup {cmd.p.n}]
                       ELSE players

\* handle_events: read_event yields Outgoing(cmd) from self.from_server
ClientTakeChan(c) ==
    /\ pc[c] = "run"
    /\ chan[c] # <<>>
    /\ HandleCommand(c, Head(chan[c]))
    /\ IF pc'[c] = "panicked"
       THEN Dropped(c)
       ELSE /\ chan' = [chan EXCEPT ![c] = Tail(@)]
            /\ UNCHANGED <<chanOpen, bus, subscribed>>
    /\ UNCHANGED <<connect, names, shines, settings, coordVars, envVars, hsErr, discSent, udp_offset, udp_port, wire>>

\* handle_events: read_event yields Outgoing(cmd) from self.recv_broadcast
ClientTakeBus(c) ==
    /\ pc[c] = "run"
    /\ bus[c] # <<>>
    /\ HandleCommand(c, Head(bus[c]))
    /\ IF pc'[c] = "panicked"
       THEN Dropped(c)
       ELSE /\ bus' = [bus EXCEPT ![c] = Tail(@)]
            /\ UNCHANGED <<chanOpen, chan, subscribed>>
    /\ UNCHANGED <<connect, names, shines, settings, coordVars, envVars, hsErr, discSent, udp_offset, udp_port, wire>>

\* a disconnect that tells the coordinator nothing
DisconnectCommandsNone(c) == <<>>

\* Client::disconnect: the commands it sends to the coordinator
DisconnectCommands(c) == <<CmdDisconnectPlayer(GuidOf(c))>>

\* Client::disconnect: to_coord.send(DisconnectPlayer { guid }).await?
ClientDisconnect(c) ==
    /\ pc[c] = "disc"
    /\ Len(coordQ) < CoordCap
    /\ coordQ' = coordQ \o DisconnectCommands(c)
    /\ discSent' = [discSent EXCEPT ![c] = @ \o DisconnectCommands(c)]
    /\ pc' = [pc EXCEPT ![c] = "shut"]
    /\ UNCHANGED <<connect, alive, sock, chan, chanOpen, bus, subscribed, lobbyVars,
                   coordPc, coordCur, coordRes, tasks, envVars, hsErr, udp_offset, udp_port, wire>>

\* Client::disconnect: self.conn.socket.shutdown().await?, and the Client is
\* dropped when disconnect returns
ClientShutdown(c) ==
    /\ pc[c] = "shut"
    /\ pc' = [pc EXCEPT ![c] = "done"]
    /\ Dropped(c)
    /\ UNCHANGED <<connect, alive, sock, lobbyVars, coordVars, envVars, hsErr, discSent, udp_offset, udp_port, wire>>

(* ------------------------------ environment ---------------------------- *)

\* the console posts an administrative command on the coordinator's queue
\* (Console::request_comm): x names the PlayerCommand, g its target
AdminCmd(x, g) ==
    /\ nAdmin < MaxAdmin
    /\ Len(coordQ) < CoordCap
    /\ nAdmin' = nAdmin + 1
    /\ coordQ' = Append(coordQ, CmdExternal(x, g))
    /\ UNCHANGED <<connVars, lobbyVars, coordPc, coordCur, coordRes, tasks, listening,
                   shutdown, nIn, udp_offset, udp_port, wire>>

\* the console posts PlayerCommand::SendShine{id} for the player g
AdminSendShine(g, id) ==
    /\ nAdmin < MaxAdmin
    /\ Len(coordQ) < CoordCap
    /\ nAdmin' = nAdmin + 1
    /\ coordQ' = Append(coordQ, CmdSendShine(g, id))
    /\ UNCHANGED <<connVars, lobbyVars, coordPc, coordCur, coordRes, tasks, listening,
                   shutdown, nIn, udp_offset, udp_port, wire>>

\* ConsoleCommand::Restart sends ServerWideCommand::Shutdown
ServerShutdown ==
    /\ ~shutdown
    /\ shutdown' = TRUE
    /\ UNCHANGED <<connVars, lobbyVars, coordVars, listening, nIn, nAdmin, udp_offset, udp_port, wire>>

\* listen_for_clients receives Shutdown and breaks out of its loop
ListenerExit ==
    /\ shutdown
    /\ listening
    /\ listening' = FALSE
    /\ UNCHANGED <<connVars, lobbyVars, coordVars, shutdown, nIn, nAdmin, udp_offset, udp_port, wire>>

(* ------------------------------- inputs -------------------------------- *)

\* the Connect packets peers send first: two profiles, a second profile that
\* uses the name of the first, a reconnect, and the banned profile
ConnectInputs ==
    {Pkt("Connect", 1, "A", "FirstConnection", 0, 0),
     Pkt("Connect", 1, "A", "Reconnecting", 0, 0),
     Pkt("Connect", 2, "B", "FirstConnection", 0, 0),
     Pkt("Connect", 2, "A", "FirstConnection", 0, 0),
     Pkt("Connect", 1, "B", "FirstConnection", 0, 0),
     Pkt("Connect", NGuid, "B", "FirstConnection", 0, 0)}

\* the first packet a peer may send: a Connect, or some other packet
HandshakeInputs == ConnectInputs \cup {Pkt("Game", 1, "Stage1", "3d", 2, 0)}

\* packets the peer of connection c may send while peers join; a game client
\* writes its own profile id into every frame
JoinPackets(c) ==
    IF nIn < MaxJoinPkts THEN {Pkt("Capture", GuidOf(c), "Frog", "", 0, 0)} ELSE {}

\* the kinds ignore_client tells apart
IgnoreInputs == {"Connect", "Game", "Other"}

\* the Connect packets of the peers that later leave
LeaveConnects ==
    {Pkt("Connect", 1, "A", "FirstConnection", 0, 0),
     Pkt("Connect", 2, "B", "FirstConnection", 0, 0),
     Pkt("Connect", 1, "A", "Reconnecting", 0, 0)}

\* the Connect packets of the peers the console acts on
ConsoleConnects ==
    {Pkt("Connect", 1, "A", "FirstConnection", 0, 0),
     Pkt("Connect", 2, "B", "FirstConnection", 0, 0)}

\* the administrative commands the console issues, and their targets: all
\* players (0) or the player with the first profile id
AdminInputs == {"Disconnect"}
AdminTargets == {0, 1}

\* the Connect packet of the peer of connection c when every peer uses a
\* profile of its own: profile id c, the names A, B, B, ...
PlayConnect(c) ==
    Pkt("Connect", c, IF c = 1 THEN "A" ELSE "B", "FirstConnection", 0, 0)

\* one packet of every kind handle_packet tells apart, and Cap for the kinds
\* it does not list, as the peer of connection c sends them
DispatchPackets(c) ==
    IF nIn >= MaxJoinPkts THEN {}
    ELSE {Pkt("Player", GuidOf(c), "", "", 0, 0),
          Pkt("Cap", GuidOf(c), "", "", 0, 0),
          Pkt("Capture", GuidOf(c), "Frog", "", 0, 0),
          Pkt("Costume", GuidOf(c), "Mario", "", 0, 0),
          Pkt("Game", GuidOf(c), "CapWorldHomeStage", "3d", 2, 0),
          Pkt("Tag", GuidOf(c), "T", "Both", 5, 1),
          Pkt("Shine", GuidOf(c), "", "F", 1, 0),
          Pkt("UdpInit", GuidOf(c), "", "", 7, 0),
          Pkt("HolePunch", GuidOf(c), "", "", 0, 0)}

\* the packets of a peer that moves between two stages: Player frames and the
\* Game packets of the two stages
StagePackets(c) ==
    {Pkt("Player", GuidOf(c), "", "", 0, 0),
     Pkt("Game", GuidOf(c), "CapWorldHomeStage", "3d", 2, 0),
     Pkt("Game", GuidOf(c), "WaterfallWorldHomeStage", "3d", 2, 0)}

\* the Game packet of a new save file in the Cap kingdom, and the Game packet
\* of the first stage after it
GameNewSave(g) == Pkt("Game", g, "CapWorldHomeStage", "3d", 1, 0)
GameCascade(g) == Pkt("Game", g, "WaterfallWorldHomeStage", "3d", 1, 0)

\* the packets of a peer that collects shines: a shine, the excluded shine,
\* and the Game packet of a new save file
ShinePackets(c) ==
    {Pkt("Shine", GuidOf(c), "", "F", 1, 0),
     Pkt("Shine", GuidOf(c), "", "F", NShine, 0),
     GameNewSave(GuidOf(c))}

\* the packets of two peers of which the first has loaded its save file and
\* collects a shine, and the others start a new save file, leave the Cap
\* kingdom or enter a banned stage
RolePackets(c) ==
    IF c = 1
    THEN {Pkt("Costume", GuidOf(c), "Mario", "", 0, 0),
          Pkt("Shine", GuidOf(c), "", "F", 1, 0)}
    ELSE {GameNewSave(GuidOf(c)),
          GameCascade(GuidOf(c)),
          Pkt("Game", GuidOf(c), "BannedStage", "3d", 1, 0)}

\* the packets of a first peer that loads its save file and collects a
\* shine, and of the others, who start a new save file
OpsPackets(c) ==
    IF c = 1
    THEN {Pkt("Costume", GuidOf(c), "Mario", "", 0, 0),
          Pkt("Shine", GuidOf(c), "", "F", 1, 0)}
    ELSE {GameNewSave(GuidOf(c))}

(* -------------------------------- codec -------------------------------- *)

\* A buffer is a sequence of bytes.  A decoded Packet is a record of id (its
\* 16 bytes), data_size and data; data is a record of kind and f, the fields
\* of the PacketData variant in the order of their declaration.  A String is
\* the sequence of its bytes, an f32 is its 4 bytes (two floats read from
\* bytes below 128 are equal exactly when their bytes are: none is a NaN or
\* a negative zero), a GameMode is its u8 (from_u8 and to_u8 are inverse on
\* 0..15), and an i8 or i32 is its bytes.

MAX_PACKET_SIZE == 256
COSTUME_NAME_SIZE == 32
CAP_ANIM_SIZE == 48
STAGE_GAME_NAME_SIZE == 64
STAGE_CHANGE_NAME_SIZE == 48
STAGE_ID_SIZE == 16
CLIENT_NAME_SIZE == COSTUME_NAME_SIZE

\* the packet type of a JsonApi request, "ST" read as a u16
JsonApiType == 21587

\* buf_size_to_string, on the bytes it copies from the buffer:
\* trim_matches(char::from(0)) removes the NULs at both ends
buf_size_to_string(bytes) ==
    LET nz == {i \in DOMAIN bytes : bytes[i] # 0}
    IN IF nz = {} THEN <<>>
       ELSE SubSeq(bytes, CHOOSE i \in nz : \A j \in nz : i <= j,
                          CHOOSE i \in nz : \A j \in nz : j <= i)

\* a str_to_sized_array that adds no padding
str_to_sized_arrayUnpadded(str, N) == str

\* str_to_sized_array::<N>: the bytes of the string, cut or padded with
\* zeroes to N bytes
str_to_sized_array(str, N) ==
    [i \in 1..N |-> IF i <= Len(str) THEN str[i] ELSE 0]

\* PacketData::get_size
get_size(data) ==
    CASE data.kind = "Unhandled" -> Len(data.f[2])
      [] data.kind = "Init" -> 2
      [] data.kind = "Player" -> 56
      [] data.kind = "Cap" -> 29 + CAP_ANIM_SIZE
      [] data.kind = "Game" -> 2 + STAGE_GAME_NAME_SIZE
      [] data.kind = "Tag" -> 5
      [] data.kind = "GameMode" -> 1 + Len(data.f[3])
      [] data.kind = "Connect" -> 6 + CLIENT_NAME_SIZE
      [] data.kind = "Disconnect" -> 0
      [] data.kind = "Costume" -> COSTUME_NAME_SIZE * 2
      [] data.kind = "Shine" -> 5
      [] data.kind = "Capture" -> COSTUME_NAME_SIZE
      [] data.kind = "ChangeStage" -> STAGE_ID_SIZE + STAGE_CHANGE_NAME_SIZE + 2
      [] data.kind = "Command" -> 0
      [] data.kind = "UdpInit" -> 2
      [] data.kind = "HolePunch" -> 0
      [] data.kind = "JsonApi" -> Len(data.f[1])

\* PacketData::get_type_id
get_type_id(data) ==
    CASE data.kind = "Unhandled" -> data.f[1]
      [] data.kind = "Init" -> 1
      [] data.kind = "Player" -> 2
      [] data.kind = "Cap" -> 3
      [] data.kind = "Game" -> 4
      [] data.kind = "Tag" -> 5
      [] data.kind = "GameMode" -> 5
      [] data.kind = "Connect" -> 6
      [] data.kind = "Disconnect" -> 7
      [] data.kind = "Costume" -> 8
      [] data.kind = "Shine" -> 9
      [] data.kind = "Capture" -> 10
      [] data.kind = "ChangeStage" -> 11
      [] data.kind = "Command" -> 12
      [] data.kind = "UdpInit" -> 13
      [] data.kind = "HolePunch" -> 14
      [] data.kind = "JsonApi" -> JsonApiType

\* Packet::resize
resize(p) == [p EXCEPT !.data_size = get_size(p.data) % 65536]

\* Packet::decode on the bytes of buf: res is "ok", the EncodingError, or
\* "panic"; pkt is the Packet and used the number of bytes taken from buf.
\* A read past the end of the buffer panics, and so does the subtraction
\* of excess_padding when get_size exceeds p_size: it overflows in a debug
\* build, and in a release build it wraps to an advance past the end.
decode(buf) ==
    LET total_size == Len(buf)
        u16(b, i) == b[i + 1] + 256 * b[i + 2]
        bytes(b, i, n) == SubSeq(b, i + 1, i + n)
        str(b, i, n) == buf_size_to_string(bytes(b, i, n))
        fail(r) == [res |-> r, used |-> 0]
        id == bytes(buf, 0, 16)
        p_type == u16(buf, 16)
        p_size == u16(buf, 18)
        b == SubSeq(buf, 21, total_size)
        is_tag == LET game_mode == b[1] \div 16
                      update_type == b[1] % 16
                  IN game_mode \in {1, 2} \/ (game_mode = 0 /\ update_type = 3)
        \* the bytes the reads of the fields take from the buffer
        reads == CASE p_type = 1 -> 2
                   [] p_type = 2 -> 12 + 16 + 24 + 2 + 2
                   [] p_type = 3 -> 12 + 16 + 1 + COSTUME_NAME_SIZE
                   [] p_type = 4 -> 2 + STAGE_GAME_NAME_SIZE
                   [] p_type = 5 -> IF b = <<>> THEN 1
                                    ELSE IF is_tag THEN 5
                                    ELSE 1 + ((p_size - 1) % 65536)
                   [] p_type = 6 -> 4 + 2 + CLIENT_NAME_SIZE
                   [] p_type = 8 -> COSTUME_NAME_SIZE + COSTUME_NAME_SIZE
                   [] p_type = 9 -> 5
                   [] p_type = 10 -> COSTUME_NAME_SIZE
                   [] p_type = 11 -> STAGE_CHANGE_NAME_SIZE + STAGE_ID_SIZE + 2
                   [] p_type = 13 -> 2
                   [] p_type \in {7, 12, 14} -> 0
                   [] p_type = JsonApiType -> Len(b)
                   [] OTHER -> p_size
        \* the bytes that go through std::str::from_utf8
        text == CASE p_type = 3 -> bytes(b, 29, COSTUME_NAME_SIZE)
                  [] p_type = 4 -> bytes(b, 2, STAGE_GAME_NAME_SIZE)
                  [] p_type = 6 -> bytes(b, 6, CLIENT_NAME_SIZE)
                  [] p_type = 8 -> bytes(b, 0, 2 * COSTUME_NAME_SIZE)
                  [] p_type = 10 -> bytes(b, 0, COSTUME_NAME_SIZE)
                  [] p_type = 11 -> bytes(b, 0, STAGE_CHANGE_NAME_SIZE + STAGE_ID_SIZE)
                  [] p_type = JsonApiType -> buf
                  [] OTHER -> <<>>
        d(kind, f) == [kind |-> kind, f |-> f]
        data ==
            CASE p_type = 1 -> d("Init", <<u16(b, 0)>>)
              [] p_type = 2 -> d("Player", <<bytes(b, 0, 12), bytes(b, 12, 16),
                                             bytes(b, 28, 24), u16(b, 52), u16(b, 54)>>)
              [] p_type = 3 -> d("Cap", <<bytes(b, 0, 12), bytes(b, 12, 16), b[29] # 0,
                                          bytes(b, 29, COSTUME_NAME_SIZE)>>)
              [] p_type = 4 -> d("Game", <<b[1] # 0, b[2], str(b, 2, STAGE_GAME_NAME_SIZE)>>)
              [] p_type = 5 ->
                   IF is_tag
                   THEN d("Tag", <<b[1] \div 16,
                                   CASE b[1] % 16 = 1 -> "Time"
                                     [] b[1] % 16 = 2 -> "State"
                                     [] b[1] % 16 = 3 -> "Both"
                                     [] OTHER -> "Unknown",
                                   b[2] # 0, b[3], u16(b, 3)>>)
                   ELSE d("GameMode", <<b[1] \div 16, b[1] % 16, bytes(b, 1, p_size - 1)>>)
              [] p_type = 6 -> d("Connect", <<IF bytes(b, 0, 4) = <<0, 0, 0, 0>>
                                              THEN "FirstConnection" ELSE "Reconnecting",
                                              u16(b, 4), str(b, 6, CLIENT_NAME_SIZE)>>)
              [] p_type = 7 -> d("Disconnect", <<>>)
              [] p_type = 8 -> d("Costume", <<str(b, 0, COSTUME_NAME_SIZE),
                                              str(b, COSTUME_NAME_SIZE, COSTUME_NAME_SIZE)>>)
              [] p_type = 9 -> d("Shine", <<bytes(b, 0, 4), b[5] # 0>>)
              [] p_type = 10 -> d("Capture", <<str(b, 0, COSTUME_NAME_SIZE)>>)
              [] p_type = 11 -> d("ChangeStage",
                                  <<str(b, 0, STAGE_CHANGE_NAME_SIZE),
                                    str(b, STAGE_CHANGE_NAME_SIZE, STAGE_ID_SIZE),
                                    b[STAGE_CHANGE_NAME_SIZE + STAGE_ID_SIZE + 1],
                                    b[STAGE_CHANGE_NAME_SIZE + STAGE_ID_SIZE + 2]>>)
              [] p_type = 12 -> d("Command", <<>>)
              [] p_type = 13 -> d("UdpInit", <<u16(b, 0)>>)
              [] p_type = 14 -> d("HolePunch", <<>>)
              [] p_type = JsonApiType -> d("JsonApi", <<buf>>)
              [] OTHER -> d("Unhandled", <<p_type, bytes(b, 0, p_size)>>)
        size == IF p_type = JsonApiType THEN total_size % 65536 ELSE p_size
    IN IF total_size < 16 + 2 + 2 THEN fail("NotEnoughData")
       ELSE IF p_type # JsonApiType /\ Len(b) < p_size THEN fail("NotEnoughData")
       ELSE IF reads > Len(b) THEN fail("panic")
       ELSE IF \E i \in DOMAIN text : text[i] >= 128 THEN fail("Utf8Error")
       ELSE IF size < get_size(data) THEN fail("panic")
       ELSE [res |-> "ok",
             pkt |-> [id |-> id, data_size |-> size, data |-> data],
             used |-> 20 + reads + (size - get_size(data))]

\* Packet::encode: the bytes it puts into the buffer
encode(p) ==
    LET put_u16_le(x) == <<x % 256, x \div 256>>
        put_bool(x) == <<IF x THEN 1 ELSE 0>>
        f == p.data.f
        kind == p.data.kind
    IN p.id \o put_u16_le(get_type_id(p.data)) \o put_u16_le(p.data_size) \o
       (CASE kind = "Unhandled" -> f[2]
          [] kind = "Init" -> put_u16_le(f[1])
          [] kind = "Player" -> f[1] \o f[2] \o f[3] \o put_u16_le(f[4]) \o put_u16_le(f[5])
          [] kind = "Cap" -> f[1] \o f[2] \o put_bool(f[3])
                             \o str_to_sized_array(f[4], CAP_ANIM_SIZE)
          [] kind = "Game" -> put_bool(f[1]) \o <<f[2]>>
                              \o str_to_sized_array(f[3], STAGE_GAME_NAME_SIZE)
          [] kind = "Tag" -> <<f[1] * 16 + (CASE f[2] = "Unknown" -> 0
                                              [] f[2] = "Time" -> 1
                                              [] f[2] = "State" -> 2
                                              [] f[2] = "Both" -> 3)>>
                             \o put_bool(f[3]) \o <<f[4]>> \o put_u16_le(f[5])
          [] kind = "GameMode" -> <<f[1] * 16 + f[2]>> \o f[3]
          [] kind = "Connect" -> <<IF f[1] = "FirstConnection" THEN 0 ELSE 1, 0, 0, 0>>
                                 \o put_u16_le(f[2])
                                 \o str_to_sized_array(f[3], CLIENT_NAME_SIZE)
          [] kind = "Costume" -> str_to_sized_array(f[1], COSTUME_NAME_SIZE)
                                 \o str_to_sized_array(f[2], COSTUME_NAME_SIZE)
          [] kind = "Shine" -> f[1] \o put_bool(f[2])
          [] kind = "Capture" -> str_to_sized_array(f[1], COSTUME_NAME_SIZE)
          [] kind = "ChangeStage" -> str_to_sized_array(f[1], STAGE_CHANGE_NAME_SIZE)
                                     \o str_to_sized_array(f[2], STAGE_ID_SIZE)
                                     \o <<f[3], f[4]>>
          [] kind = "UdpInit" -> put_u16_le(f[1])
          [] kind \in {"Disconnect", "Command", "HolePunch", "JsonApi"} -> <<>>)

(* ---------------------------- specification ---------------------------- *)

\* the steps of a client task that need no input from its peer
ClientNext(c) ==
    \/ ClientTakeChan(c)
    \/ ClientTakeBus(c)
    \/ ClientDisconnect(c)
    \/ ClientShutdown(c)

\* the steps of the server's tasks that need no further input from a peer or
\* from the console
TaskNext ==
    \/ CoordAddClient
    \/ CoordSetupPlayer
    \/ CoordDisconnectPlayer
    \/ CoordPacket
    \/ CoordExternal
    \/ ListenerExit
    \/ \E c \in Conns : HsSend(c)
    \/ \E c \in Conns : ClientNext(c)

\* peers join: connections are accepted, shake hands or are ignored, the
\* coordinator adds the clients, and the connected peers send packets
NextJoin ==
    \/ \E c \in Conns, ip \in IPs : Accept(c, ip)
    \/ \E c \in Conns, p \in HandshakeInputs, bind_ok \in BOOLEAN : HsRead(c, p, bind_ok)
    \/ \E c \in Conns : HsClosed(c)
    \/ \E c \in Conns : HsSend(c)
    \/ \E c \in Conns, kind \in IgnoreInputs : nIn < MaxJoinPkts /\ IgnoreRecv(c, kind)
    \/ \E c \in Conns : IgnoreClosed(c)
    \/ CoordAddClient
    \/ CoordSetupPlayer
    \/ \E c \in Conns : \E p \in JoinPackets(c) : ClientRecvPacket(c, p)
    \/ \E c \in Conns : ClientTakeChan(c)
    \/ \E c \in Conns : ClientTakeBus(c)

SpecJoin == Init /\ [][NextJoin]_vars

\* peers join a server with room for one player: it is full once the first
\* of them is in the lobby
SpecFull == InitWith({[DefaultSettings EXCEPT !.max_players = 1]}) /\ [][NextJoin]_vars

\* peers leave: clients join or reconnect, and their connections break
NextLeave ==
    \/ \E c \in Conns : Accept(c, "ip1")
    \/ \E c \in Conns, p \in LeaveConnects : HsRead(c, p, TRUE)
    \/ \E c \in Conns : HsSend(c)
    \/ CoordAddClient
    \/ CoordSetupPlayer
    \/ CoordDisconnectPlayer
    \/ \E c \in Conns : ClientTakeChan(c)
    \/ \E c \in Conns : ClientTakeBus(c)
    \/ \E c \in Conns : ClientReadFatal(c)
    \/ \E c \in Conns : ClientDisconnect(c)
    \/ \E c \in Conns : ClientShutdown(c)

SpecLeave == Init /\ [][NextLeave]_vars

\* the console acts: clients join, and the console disconnects players or
\* tells the server to shut down
NextConsole ==
    \/ \E c \in Conns : Accept(c, "ip1")
    \/ \E c \in Conns, p \in ConsoleConnects : HsRead(c, p, TRUE)
    \/ \E c \in Conns : HsSend(c)
    \/ CoordAddClient
    \/ CoordSetupPlayer
    \/ CoordDisconnectPlayer
    \/ CoordExternal
    \/ \E c \in Conns : ClientTakeChan(c)
    \/ \E c \in Conns : ClientTakeBus(c)
    \/ \E c \in Conns : ClientDisconnect(c)
    \/ \E c \in Conns : ClientShutdown(c)
    \/ \E g \in AdminTargets, x \in AdminInputs : AdminCmd(x, g)
    \/ ServerShutdown
    \/ ListenerExit

SpecConsole == Init /\ [][NextConsole]_vars

\* peers send a packet: the peers join with profiles of their own, and one of
\* them sends a packet of some kind, which the coordinator and the client
\* tasks relay
NextDispatch ==
    \/ \E c \in Conns : Accept(c, "ip1")
    \/ \E c \in Conns : HsRead(c, PlayConnect(c), TRUE)
    \/ \E c \in Conns : HsSend(c)
    \/ CoordAddClient
    \/ CoordSetupPlayer
    \/ CoordPacket
    \/ \E c \in Conns : \E p \in DispatchPackets(c) : ClientRecvPacket(c, p)
    \/ \E c \in Conns : ClientTakeChan(c)
    \/ \E c \in Conns : ClientTakeBus(c)

SpecDispatch == Init /\ [][NextDispatch]_vars

\* two peers join, and one packet is sent, with or without the scenario merge
SpecMerge ==
    /\ InitWith({[DefaultSettings EXCEPT !.merge_enabled = m] : m \in BOOLEAN})
    /\ [][NextDispatch]_vars

\* every connection has been added to the lobby and its client task runs
AllJoined == coordPc = "idle" /\ \A c \in Conns : pc[c] = "run"

\* every connection has joined and every client task has taken what the
\* joins put on its channel and on the bus
AllSettled ==
    /\ AllJoined
    /\ nIn = 0 /\ nAdmin = 0 => \A c \in Conns : chan[c] = <<>> /\ bus[c] = <<>>

\* a peer moves between stages: the peers join with profiles of their own,
\* and then the first one sends Player and Game packets
NextStage ==
    \/ \E c \in Conns : Accept(c, "ip1")
    \/ \E c \in Conns : HsRead(c, PlayConnect(c), TRUE)
    \/ \E c \in Conns : HsSend(c)
    \/ CoordAddClient
    \/ CoordSetupPlayer
    \/ CoordPacket
    \/ \E p \in StagePackets(1) : AllJoined /\ ClientRecvPacket(1, p)
    \/ \E c \in Conns : ClientTakeChan(c)
    \/ \E c \in Conns : ClientTakeBus(c)

SpecStage == Init /\ [][NextStage]_vars

\* peers collect shines: the peers join with profiles of their own, then
\* report shines or start a new save file, and the console sends a shine to
\* the first player or asks for a shine sync
NextShine ==
    \/ \E c \in Conns : Accept(c, "ip1")
    \/ \E c \in Conns : HsRead(c, PlayConnect(c), TRUE)
    \/ \E c \in Conns : HsSend(c)
    \/ CoordAddClient
    \/ CoordSetupPlayer
    \/ CoordPacket
    \/ CoordExternal
    \/ \E c \in Conns : \E p \in ShinePackets(c) : AllSettled /\ ClientRecvPacket(c, p)
    \/ \E c \in Conns : ClientTakeChan(c)
    \/ \E c \in Conns : ClientTakeBus(c)
    \/ AllSettled /\ AdminSendShine(1, 1)
    \/ AllSettled /\ AdminCmd("ShineSync", 0)

SpecShine == Init /\ [][NextShine]_vars

\* peers collect shines and leave: the peers join with profiles of their
\* own, then report a shine or start a new save file, and their connections
\* break
NextShineLeave ==
    \/ \E c \in Conns : Accept(c, "ip1")
    \/ \E c \in Conns : HsRead(c, PlayConnect(c), TRUE)
    \/ \E c \in Conns : HsSend(c)
    \/ CoordAddClient
    \/ CoordSetupPlayer
    \/ CoordPacket
    \/ CoordDisconnectPlayer
    \/ \E c \in Conns : \E p \in ShinePackets(c) : AllSettled /\ ClientRecvPacket(c, p)
    \/ \E c \in Conns : ClientTakeChan(c)
    \/ \E c \in Conns : ClientTakeBus(c)
    \/ \E c \in Conns : AllSettled /\ ClientReadFatal(c)
    \/ \E c \in Conns : ClientDisconnect(c)
    \/ \E c \in Conns : ClientShutdown(c)

SpecShineLeave == Init /\ [][NextShineLeave]_vars

\* the first peer plays while the console issues a command and the
\* connection of the second peer breaks
NextOps ==
    \/ \E c \in Conns : Accept(c, "ip1")
    \/ \E c \in Conns : HsRead(c, PlayConnect(c), TRUE)
    \/ \E c \in Conns : HsSend(c)
    \/ CoordAddClient
    \/ CoordSetupPlayer
    \/ CoordPacket
    \/ CoordExternal
    \/ CoordDisconnectPlayer
    \/ \E p \in OpsPackets(1) : AllSettled /\ ClientRecvPacket(1, p)
    \/ \E g \in {2, NGuid} : AllSettled /\ AdminCmd("Crash", g)
    \/ \E c \in Conns : ClientTakeChan(c)
    \/ \E c \in Conns : ClientTakeBus(c)
    \/ AllSettled /\ ClientReadFatal(2)
    \/ ClientDisconnect(2)
    \/ ClientShutdown(2)

SpecOps == Init /\ [][NextOps]_vars

\* the flip settings of the server: the first player flipped under each
\* point of view, both players flipped, and the flip switched off
FlipSettings ==
    {[DefaultSettings EXCEPT !.flip_enabled = TRUE, !.flip_players = {1}, !.flip_pov = v] :
         v \in {"Both", "Player", "Others"}}
    \cup {[DefaultSettings EXCEPT !.flip_enabled = TRUE, !.flip_players = {1, 2}],
          [DefaultSettings EXCEPT !.flip_players = {1}]}

\* the packets of peers that move: Player frames, and the Game packet of a
\* 2D section for the first peer
FlipPackets(c) ==
    {Pkt("Player", GuidOf(c), "", "", 0, 0)}
    \cup (IF c = 1 THEN {Pkt("Game", GuidOf(c), "CapWorldHomeStage", "2d", 2, 0)} ELSE {})

\* two peers join a server with flip settings and move
NextFlip ==
    \/ \E c \in Conns : Accept(c, "ip1")
    \/ \E c \in Conns : HsRead(c, PlayConnect(c), TRUE)
    \/ \E c \in Conns : HsSend(c)
    \/ CoordAddClient
    \/ CoordSetupPlayer
    \/ CoordPacket
    \/ \E c \in Conns : \E p \in FlipPackets(c) : AllSettled /\ ClientRecvPacket(c, p)
    \/ \E c \in Conns : ClientTakeChan(c)
    \/ \E c \in Conns : ClientTakeBus(c)

SpecFlip == InitWith(FlipSettings) /\ [][NextFlip]_vars

\* the payload length of a frame of the kinds 1..14 as the round_trip test
\* declares it, which is get_size of the kind
FixedSize == <<2, 56, 29 + CAP_ANIM_SIZE, 2 + STAGE_GAME_NAME_SIZE, 5, 6 + CLIENT_NAME_SIZE,
               0, COSTUME_NAME_SIZE * 2, 5, COSTUME_NAME_SIZE,
               STAGE_ID_SIZE + STAGE_CHANGE_NAME_SIZE + 2, 0, 2, 0>>

\* the bytes of a frame: the id, the type, the declared size and n bytes of
\* payload, of which the first is `first` and the others are below 128 (as
\* in the round_trip test) with NULs among them for k > 0, all NUL for k = 0
Frame(p_type, p_size, n, first, k) ==
    [i \in 1..16 |-> 64 + i] \o <<p_type % 256, p_type \div 256, p_size % 256, p_size \div 256>>
    \o [i \in 1..n |-> IF i = 1 THEN first
                       ELSE IF k = 0 \/ (i + k) % (k + 3) = 0 THEN 0
                       ELSE (k * 37 + i * 11) % 128]

\* the buffers handed to Packet::decode: a frame of every kind with and
\* without padding and with and without bytes of a next frame behind it, a
\* kind-5 frame for every first byte, frames that declare more than
\* MAX_PACKET_SIZE bytes, and a JsonApi request
Frames ==
    {Frame(t, (IF t <= 14 THEN FixedSize[t] ELSE 3) + pad,
              (IF t <= 14 THEN FixedSize[t] ELSE 3) + pad + more, (k * 37 + 11) % 128, k) :
         t \in 1..15, pad \in 0..MaxPad, more \in {0, 4}, k \in 0..(NPat - 1)}
    \cup {Frame(5, 5, 5, both, 1) : both \in 0..255}
    \cup {Frame(t, MAX_PACKET_SIZE + 1, MAX_PACKET_SIZE + 1, 48, 1) : t \in {1, 5, 15}}
    \cup {Frame(JsonApiType, 0, 2, 123, 1)}

\* a buffer arrives and Packet::decode runs on it
CodecDecode ==
    /\ wire.stage = "frame"
    /\ wire' = [stage |-> "decoded", buf |-> wire.buf, de |-> decode(wire.buf)]
    /\ UNCHANGED <<connVars, lobbyVars, coordVars, envVars, udp_offset, udp_port>>

\* round_trip: the decoded packet is resized and encoded, and the bytes are
\* decoded again
CodecRoundTrip ==
    /\ wire.stage = "decoded"
    /\ wire.de.res = "ok"
    /\ LET p == resize(wire.de.pkt)
       IN wire' = [stage |-> "done", buf |-> wire.buf, de |-> wire.de, p |-> p,
                   out |-> encode(p), de_p |-> decode(encode(p))]
    /\ UNCHANGED <<connVars, lobbyVars, coordVars, envVars, udp_offset, udp_port>>

NextCodec == CodecDecode \/ CodecRoundTrip

\* a server on which one buffer of bytes has arrived
InitCodec ==
    /\ InitTasks
    /\ settings = DefaultSettings
    /\ wire \in {[stage |-> "frame", buf |-> f] : f \in Frames}

SpecCodec == InitCodec /\ [][NextCodec]_vars

\* the packets of peers that send without pause: the first sends Player
\* frames, the others send their costume again and again
BurstPacket(c) ==
    IF c = 1 THEN Pkt("Player", GuidOf(c), "", "", 0, 0)
    ELSE Pkt("Costume", GuidOf(c), "Mario", "", 0, 0)

\* two peers join and the second collects a shine; then it sends Costume
\* packets without pause, and the first peer sends a Player frame when the
\* coordinator's queue is full.  The client tasks are scheduled to read
\* their sockets first.
NextBurst ==
    \/ \E c \in Conns : Accept(c, "ip1")
    \/ \E c \in Conns : HsRead(c, PlayConnect(c), TRUE)
    \/ \E c \in Conns : HsSend(c)
    \/ CoordAddClient
    \/ CoordSetupPlayer
    \/ CoordPacket
    \/ nIn = 0 /\ AllSettled /\ ClientRecvPacket(2, Pkt("Shine", GuidOf(2), "", "F", 1, 0))
    \/ nIn = 1 /\ ClientRecvBurst(2, BurstPacket(2))
    \/ nIn = 1 /\ Len(coordQ) >= CoordCap /\ ClientRecvBurst(1, BurstPacket(1))
    \/ \E c \in Conns : ClientSendResume(c, BurstPacket(c))
    \/ \E c \in Conns : nIn = 0 /\ ClientTakeChan(c)
    \/ \E c \in Conns : nIn = 0 /\ ClientTakeBus(c)

SpecBurst == Init /\ [][NextBurst]_vars

\* the packets of a peer that writes the profile id of the other peer into
\* its frames: a Disconnect and the Game packet of a new save file
ForgedPackets(c) ==
    {Pkt("Disconnect", GuidOf(3 - c), "", "", 0, 0), GameNewSave(GuidOf(3 - c))}

\* two peers join, and the first sends packets under the id of the second
NextForge ==
    \/ \E c \in Conns : Accept(c, "ip1")
    \/ \E c \in Conns : HsRead(c, PlayConnect(c), TRUE)
    \/ \E c \in Conns : HsSend(c)
    \/ CoordAddClient
    \/ CoordSetupPlayer
    \/ CoordPacket
    \/ \E p \in ForgedPackets(1) : AllSettled /\ ClientRecvPacket(1, p)
    \/ \E c \in Conns : ClientTakeChan(c)
    \/ \E c \in Conns : ClientTakeBus(c)

SpecForge == Init /\ [][NextForge]_vars

\* a peer joins and enters a banned stage, and the other peer joins at any
\* time before or after
NextBanJoin ==
    \/ \E c \in Conns : Accept(c, "ip1")
    \/ \E c \in Conns : HsRead(c, PlayConnect(c), TRUE)
    \/ \E c \in Conns : HsSend(c)
    \/ CoordAddClient
    \/ CoordSetupPlayer
    \/ CoordPacket
    \/ CoordExternal
    \/ \E i \in 1..MaxPkts : TaskCrash(i)
    \/ nIn = 0 /\ ClientRecvPacket(1, Pkt("Game", GuidOf(1), "BannedStage", "3d", 1, 0))
    \/ \E c \in Conns : ClientTakeChan(c)
    \/ \E c \in Conns : ClientTakeBus(c)

SpecBanJoin == Init /\ [][NextBanJoin]_vars

\* connections from a banned address or with the banned profile are ignored
\* while another peer joins, and the ignored peers go on sending packets
NextIgnore ==
    \/ \E c \in Conns, ip \in IPs : Accept(c, ip)
    \/ \E c \in Conns, g \in {1, NGuid} :
          HsRead(c, Pkt("Connect", g, "B", "FirstConnection", 0, 0), TRUE)
    \/ \E c \in Conns : HsSend(c)
    \/ \E c \in Conns, kind \in IgnoreInputs : IgnoreRecv(c, kind)
    \/ \E c \in Conns : IgnoreClosed(c)
    \/ CoordAddClient
    \/ CoordSetupPlayer
    \/ \E c \in Conns : ClientTakeChan(c)
    \/ \E c \in Conns : ClientTakeBus(c)

SpecIgnore == Init /\ [][NextIgnore]_vars

\* Server::build_server hands (settings.udp.base_port, settings.udp.port_count)
\* to the listener: pools at the bottom and at the top of the u16 range, of
\* zero, one and two ports
UdpSettings ==
    {[DefaultSettings EXCEPT !.udp_base_port = b, !.udp_port_count = n] :
        b \in {0, 65535}, n \in {0, 1, 2}}

\* peers connect to a server with any of these pools
SpecUdp == InitWith(UdpSettings) /\ [][NextIgnore]_vars

\* the peers play on a server that persists its shines, and the console
\* clears the shines
NextPersist ==
    \/ \E c \in Conns : Accept(c, "ip1")
    \/ \E c \in Conns : HsRead(c, PlayConnect(c), TRUE)
    \/ \E c \in Conns : HsSend(c)
    \/ CoordAddClient
    \/ CoordSetupPlayer
    \/ CoordPacket
    \/ CoordExternal
    \/ \E i \in 1..MaxPkts : TaskPersist(i)
    \/ \E c \in Conns : \E p \in OpsPackets(c) : AllSettled /\ ClientRecvPacket(c, p)
    \/ AllSettled /\ AdminCmd("ShineClear", 0)
    \/ \E c \in Conns : ClientTakeChan(c)
    \/ \E c \in Conns : ClientTakeBus(c)

SpecPersist ==
    /\ InitWith({[DefaultSettings EXCEPT !.persist_enabled = TRUE]})
    /\ [][NextPersist]_vars

\* the steps of the coordinator's loop, by what every such step does: recv()
\* takes the next command off the queue, and add_client returns. The
\* channels never fill up within the bounds, so that a command that can be
\* taken can be handled.
CoordRecv == coordPc = "idle" /\ coordQ # <<>> /\ coordQ' = Tail(coordQ)

CoordReturn == coordPc = "setup" /\ coordPc' = "idle"

\* a new save file: the peers join with profiles of their own; the first
\* one loads its save file and collects a shine, the second one starts a new
\* save file, leaves the Cap kingdom or enters a banned stage
NextNewSave ==
    \/ \E c \in Conns : Accept(c, "ip1")
    \/ \E c \in Conns : HsRead(c, PlayConnect(c), TRUE)
    \/ \E c \in Conns : HsSend(c)
    \/ CoordAddClient
    \/ CoordSetupPlayer
    \/ CoordPacket
    \/ CoordExternal
    \/ \E i \in 1..MaxPkts : TaskCrash(i)
    \/ \E i \in 1..MaxPkts : TaskReenable(i)
    \/ \E c \in Conns : \E p \in RolePackets(c) : AllSettled /\ ClientRecvPacket(c, p)
    \/ \E c \in Conns : ClientTakeChan(c)
    \/ \E c \in Conns : ClientTakeBus(c)

\* every task of the tokio runtime that can run is run: the coordinator,
\* each client task, and the tasks the coordinator has spawned
FairTasks ==
    /\ WF_coordQ(CoordRecv)
    /\ WF_coordPc(CoordReturn)
    /\ \A c \in Conns : WF_vars(HsSend(c)) /\ WF_vars(ClientTakeChan(c)) /\ WF_vars(ClientTakeBus(c))
    /\ WF_vars(\E i \in 1..MaxPkts : TaskCrash(i))
    /\ WF_vars(\E i \in 1..MaxPkts : TaskReenable(i))

SpecNewSave == Init /\ [][NextNewSave]_vars /\ FairTasks

(* ------------------------------- claims -------------------------------- *)

\* C1: whenever initialize_client waits for the first packet of an admitted
\* connection, the server has already written Init{max_players} to it: Init
\* precedes the read of the Connect packet
C1_InitBeforeFirstRead ==
    \A c \in Conns : pc[c] = "hs" => sock[c] = <<InitPacket(settings.max_players)>>

\* the first packet of the sequence s whose id is g, NoPkt when there is none
FirstWithId(s, g) ==
    LET at == {i \in 1..Len(s) : s[i].id = g}
    IN IF at = {} THEN NoPkt ELSE s[CHOOSE i \in at : \A j \in at : i <= j]

\* C2: the first packet with the id of another player that a client task
\* writes to its socket is that player's Connect
C2_ConnectFirst ==
    \A c \in Conns, g \in Guids :
        FirstWithId(sock[c], g).kind \in {"None", "Connect"}

\* the commands that carry the packets pkts
AsCommands(pkts) == [i \in 1..Len(pkts) |-> CPacket(pkts[i])]

\* what the claim C3 says setup_player sends to the new client for the peers
\* it visits in the order `order`
RECURSIVE PeerSync(_, _, _)
PeerSync(order, pl, max_player) ==
    IF order = <<>> THEN <<>>
    ELSE AsCommands(SyncPackets(pl, Head(order), max_player))
         \o PeerSync(Tail(order), pl, max_player)

\* the step in which the coordinator completes add_client without an error
SetupDone == coordPc = "setup" /\ coordPc' = "idle" /\ coordRes' = "ok"

\* C3: handling NewPlayer for client N, the coordinator places on N's channel
\* the Connect and the cached packets of each client other than N, in some
\* order of the peers, and nothing for the entry of N itself
C3_SyncOthersOnly ==
    [][SetupDone =>
         \E order \in Perms(DOMAIN players \ {coordCur.guid}) :
            chan'[coordCur.conn] =
                chan[coordCur.conn] \o PeerSync(order, players, settings.max_players)]_vars

\* what the claim C4 says is published for the Connect packet p
ConnectBroadcasts(p) ==
    <<CPacket(p)>>
    \o (IF p.t = "FirstConnection"
        THEN <<CPacket(Pkt("Tag", p.id, "F", "Both", 0, 0)),
               CPacket(Pkt("Capture", p.id, "", "", 0, 0))>>
        ELSE <<>>)

\* C4: completing a NewPlayer, the coordinator publishes on the bus the new
\* client's Connect, followed by an empty Tag and an empty Capture with the
\* new guid exactly when the Connect is a FirstConnection
C4_SetupBroadcasts ==
    [][SetupDone =>
         \A c \in Conns :
            subscribed[c] => bus'[c] = bus[c] \o ConnectBroadcasts(coordCur.p)]_vars

\* a receiver holds the broadcasts of a FirstConnection followed by the
\* single broadcast of a reconnect
C4_Witness ==
    \E c \in Conns :
        /\ coordPc = "idle"
        /\ Len(bus[c]) = 4
        /\ bus[c][1].p.t = "FirstConnection"
        /\ bus[c][2].p.kind = "Tag"
        /\ bus[c][3].p.kind = "Capture"
        /\ bus[c][4].p.t = "Reconnecting"

\* the commands NewPlayer on the coordinator's queue that come from connection c
QueuedNewPlayers(q, c) == {i \in 1..Len(q) : q[i].tag = "NewPlayer" /\ q[i].conn = c}

\* C5: a FirstConnection whose id or name lobby.names already binds fails
\* with DuplicateClient, sends no NewPlayer and leaves players and names as
\* they are; a Reconnecting connection is never refused as a duplicate
C5_DuplicateRejected ==
    [][\A c \in Conns :
         /\ (/\ pc[c] = "hs"
             /\ pc'[c] # "hs"
             /\ connect'[c].kind = "Connect"
             /\ connect'[c].id \notin settings.ban_players)
            => IF /\ connect'[c].t = "FirstConnection"
                  /\ \E pr \in names : pr[1] = connect'[c].id \/ pr[2] = connect'[c].s
               THEN /\ pc'[c] = "failed"
                    /\ hsErr'[c] = "DuplicateClient"
                    /\ UNCHANGED <<coordQ, players, names>>
               ELSE hsErr'[c] # "DuplicateClient"
         /\ hsErr[c] = "DuplicateClient"
            => pc'[c] = "failed" /\ QueuedNewPlayers(coordQ', c) = {}]_vars

\* a FirstConnection was refused for its name alone, which a running client
\* with another id holds
C5_Witness ==
    \E c, d \in Conns :
        /\ hsErr[c] = "DuplicateClient"
        /\ pc[d] = "run"
        /\ names = {<<connect[d].id, connect[d].s>>}
        /\ connect[d].id # connect[c].id
        /\ connect[d].s = connect[c].s

\* C6: a connection whose Connect carries a banned profile id is on the
\* ignore path or has failed with BannedID; no NewPlayer is queued for it and
\* the banned id is in neither lobby.players nor lobby.names
C6_BannedIgnored ==
    \A c \in Conns :
        (connect[c].kind = "Connect" /\ connect[c].id \in settings.ban_players)
        => /\ pc[c] \in {"ignore", "failed"}
           /\ pc[c] = "failed" <=> hsErr[c] = "BannedID"
           /\ Head(sock[c]) = InitPacket(1)
           /\ QueuedNewPlayers(coordQ, c) = {}
           /\ connect[c].id \notin DOMAIN players
           /\ ~ContainsLeft(names, connect[c].id)
           /\ \A g \in DOMAIN players : players[g].channel # c

\* a banned profile was ignored until its peer closed the connection
C6_Witness ==
    \E c \in Conns :
        /\ hsErr[c] = "BannedID"
        /\ connect[c].id \in settings.ban_players
        /\ sock[c][1] = InitPacket(1)

\* the step in which the coordinator handles a DisconnectPlayer command
DisconnectStep == CoordTakes("DisconnectPlayer") /\ coordQ' = Tail(coordQ)

\* the command that carries Disconnect{id = g}
DisconnectOf(g) == CPacket(Pkt("Disconnect", g, "", "", 0, 0))

\* C7, as stated: handling DisconnectPlayer{guid} for a present guid removes
\* it from players and names, publishes Disconnect{id=guid} on the bus and
\* places it on that client's channel; for an absent guid nothing changes
C7_DisconnectDelivered ==
    [][DisconnectStep =>
         LET g == Head(coordQ).guid
         IN IF g \in DOMAIN players
            THEN /\ g \notin DOMAIN players'
                 /\ ~ContainsLeft(names', g)
                 /\ \A c \in Conns : subscribed[c] => bus'[c] = Append(bus[c], DisconnectOf(g))
                 /\ chan'[players[g].channel] =
                        Append(chan[players[g].channel], DisconnectOf(g))
            ELSE UNCHANGED <<players, names, bus, chan>>]_vars

\* C7, amended: a present guid is removed from players and names; the
\* Disconnect is published when the bus has a receiver, and only then is it
\* placed on the removed entry's channel, provided the receiver of that
\* channel still exists; otherwise the handler fails after the removal.  For
\* an absent guid nothing is published and the lobby is unchanged.
C7_DisconnectPlayer ==
    [][DisconnectStep =>
         LET g == Head(coordQ).guid
         IN IF g \in DOMAIN players
            THEN /\ players' = DelPlayer(players, g)
                 /\ names' = {pr \in names : pr[1] # g}
                 /\ IF \E c \in Conns : subscribed[c]
                    THEN /\ \A c \in Conns :
                               bus'[c] = IF subscribed[c]
                                         THEN Append(bus[c], DisconnectOf(g))
                                         ELSE bus[c]
                         /\ IF chanOpen[players[g].channel]
                            THEN /\ chan' = [chan EXCEPT ![players[g].channel] =
                                                Append(@, DisconnectOf(g))]
                                 /\ coordRes' = "ok"
                            ELSE chan' = chan /\ coordRes' = "err"
                    ELSE bus' = bus /\ chan' = chan /\ coordRes' = "err"
            ELSE UNCHANGED <<players, names, bus, chan>> /\ coordRes' = "ok"]_vars

\* the coordinator has removed a player and published its Disconnect to a
\* peer, but the channel of the removed player had lost its receiver
C7_Witness ==
    /\ coordPc = "idle"
    /\ coordCur.tag = "DisconnectPlayer"
    /\ coordRes = "err"
    /\ coordCur.guid \notin DOMAIN players
    /\ \E c \in Conns :
          /\ subscribed[c]
          /\ bus[c] # <<>>
          /\ bus[c][Len(bus[c])] = DisconnectOf(coordCur.guid)

\* the task of connection c has left its event loop
LoopEnded(c) == pc[c] \in {"disc", "shut", "done"}

\* C8: a client task whose event loop has ended sends exactly one
\* DisconnectPlayer{guid = its guid}, then shuts its socket down, and writes
\* nothing and handles nothing from then on
C8_DisconnectOnce ==
    [][\A c \in Conns :
         /\ pc'[c] = "disc" => ~alive'[c] /\ discSent'[c] = <<>>
         /\ pc'[c] \in {"shut", "done"}
            => discSent'[c] = <<CmdDisconnectPlayer(connect'[c].id)>>
         /\ ~LoopEnded(c)' => discSent'[c] = <<>>
         /\ pc'[c] = "shut" /\ pc[c] # "shut"
            => pc[c] = "disc" /\ coordQ' = Append(coordQ, CmdDisconnectPlayer(connect[c].id))
         /\ pc'[c] = "done" /\ pc[c] # "done" => pc[c] = "shut"
         /\ LoopEnded(c)
            => /\ LoopEnded(c)'
               /\ sock'[c] = sock[c]
               /\ chan'[c] = chan[c] \/ Len(chan'[c]) > Len(chan[c]) \/ pc'[c] = "done"
               /\ bus'[c] = bus[c] \/ Len(bus'[c]) > Len(bus[c]) \/ pc'[c] = "done"]_vars

\* a task whose connection broke has sent its one DisconnectPlayer and has
\* shut its socket down
C8_Witness ==
    \E c \in Conns :
        /\ pc[c] = "done"
        /\ ~alive[c]
        /\ discSent[c] = <<CmdDisconnectPlayer(GuidOf(c))>>

\* the task of connection c takes cmd off its channel or off the bus
Takes(c, cmd) ==
    /\ pc[c] = "run"
    /\ \/ chan[c] # <<>> /\ Head(chan[c]) = cmd /\ chan'[c] = Tail(chan[c])
       \/ bus[c] # <<>> /\ Head(bus[c]) = cmd /\ bus'[c] = Tail(bus[c])

\* C9: the Disconnect packet with its own guid is the last command a client
\* task handles: taking it ends the loop with nothing written, and nothing is
\* taken or written afterwards
C9_DisconnectIsLast ==
    [][\A c \in Conns :
         /\ Takes(c, DisconnectOf(GuidOf(c)))
            => pc'[c] = "disc" /\ ~alive'[c] /\ sock'[c] = sock[c]
         /\ ~alive[c] /\ connect[c] # NoPkt
            => /\ pc'[c] # "run"
               /\ sock'[c] = sock[c]
               /\ ~alive'[c]
               /\ \A cmd \in {Head(q) : q \in {chan[c], bus[c]} \ {<<>>}} : ~Takes(c, cmd)]_vars

\* a running task has taken the Disconnect of its own guid while more
\* commands wait for it
C9_Witness ==
    \E c \in Conns :
        /\ pc[c] = "disc"
        /\ ~alive[c]
        /\ chan[c] # <<>> \/ bus[c] # <<>>

\* every task of the server waits: the listener has left its loop, the
\* coordinator waits on its empty queue, and each client task waits for its
\* peer, its channel or the bus
ServerQuiet ==
    /\ ~listening
    /\ coordPc = "idle"
    /\ coordQ = <<>>
    /\ \A c \in Conns :
          /\ pc[c] \notin {"hs_send", "disc", "shut"}
          /\ pc[c] = "run" => chan[c] = <<>> /\ bus[c] = <<>>

\* C10: once the shutdown signal is given and no task of the server has a
\* step left to take, every player has been disconnected and no client task
\* is still in its event loop
C10_ShutdownDisconnectsAll ==
    (shutdown /\ ServerQuiet /\ ~ENABLED TaskNext)
    => /\ DOMAIN players = {}
       /\ \A c \in Conns : pc[c] # "run"

\* C11: a packet the client task reads from its socket goes to exactly one
\* destination, by its kind: Player, Costume, Game and Shine are put on the
\* coordinator's queue and not on the bus; UdpInit and HolePunch go to
\* neither; Capture, Tag and every other kind are published on the bus and
\* not put on the coordinator's queue.
C11_DispatchByKind ==
    [][\A c \in Conns : \A p \in DispatchPackets(c) :
          ClientRecvPacket(c, p) =>
             LET toCoord == coordQ' = Append(coordQ, CmdPacket(p))
                 toBus == /\ \A d \in Conns : subscribed[d] => bus'[d] = Append(bus[d], CPacket(p))
                          /\ \A d \in Conns : ~subscribed[d] => bus'[d] = bus[d]
             IN /\ pc'[c] = "run"
                /\ p.kind \in {"Player", "Costume", "Game", "Shine"}
                      => toCoord /\ bus' = bus
                /\ p.kind \in {"UdpInit", "HolePunch"}
                      => coordQ' = coordQ /\ bus' = bus
                /\ p.kind \notin {"Player", "Costume", "Game", "Shine", "UdpInit", "HolePunch"}
                      => toBus /\ coordQ' = coordQ]_vars

\* a Tag packet of the first peer is on the bus of both clients and the
\* coordinator's queue is empty
C11_Witness ==
    /\ nIn = 1
    /\ coordQ = <<>>
    /\ coordPc = "idle"
    /\ \A c \in Conns : bus[c] # <<>> /\ bus[c][Len(bus[c])] = CPacket(Pkt("Tag", 1, "T", "Both", 5, 1))

\* C12: when the client task handles a Game packet, last_game_packet becomes
\* that packet; last_player_packet becomes None when a Game packet of another
\* stage was cached, and is left as it was when the cached stage is the same
\* or no Game packet was cached.
C12_StageChangeClearsPlayer ==
    [][\A p \in StagePackets(1) :
          (p.kind = "Game" /\ ClientRecvPacket(1, p)) =>
             LET g == GuidOf(1)
                 cached == players[g].last_game_packet
             IN /\ players'[g].last_game_packet = p
                /\ players'[g].last_player_packet =
                      IF cached # NoPkt /\ cached.s # p.s THEN NoPkt
                      ELSE players[g].last_player_packet]_vars

\* the first peer sent a Player packet (the second peer was sent it) and then
\* changed its stage: its last_player_packet is None again
C12_Witness ==
    /\ 1 \in DOMAIN players
    /\ players[1].last_game_packet.s = "WaterfallWorldHomeStage"
    /\ players[1].last_player_packet = NoPkt
    /\ \E i \in 1..Len(sock[2]) : sock[2][i].kind = "Player" /\ sock[2][i].id = 1

\* the commands at the head of the two queues the task of connection c reads
Heads(c) == {Head(q) : q \in {chan[c], bus[c]} \ {<<>>}}

\* C13: a client task writes nothing to its socket for a
\* ClientCommand::Packet whose id is its own guid: the packet is dropped, and
\* only a Disconnect among them clears alive.
C13_OwnPacketsDropped ==
    [][\A c \in Conns : \A cmd \in Heads(c) :
          (Takes(c, cmd) /\ cmd.tag = "Packet" /\ cmd.p.id = GuidOf(c))
             => /\ sock'[c] = sock[c]
                /\ cmd.p.kind = "Disconnect" => ~alive'[c]
                /\ cmd.p.kind # "Disconnect" => alive'[c] = alive[c] /\ pc'[c] = "run"]_vars

\* a client has taken everything setup_player sent and published for it (its
\* own Connect on its channel and on the bus) and has written nothing but
\* the Init of the handshake
C13_Witness ==
    \E c \in Conns :
        /\ pc[c] = "run"
        /\ coordPc = "idle"
        /\ coordRes = "ok"
        /\ coordCur = CmdNewPlayer(c, connect[c])
        /\ chan[c] = <<>>
        /\ bus[c] = <<>>
        /\ sock[c] = <<InitPacket(settings.max_players)>>

\* C14: for a SelfAddressed command the client task writes the command's
\* packet with id = its own guid, whatever id it carried; a SelfAddressed
\* Shine{s} also puts s into the shine_sync of the task's player, and a
\* SelfAddressed Disconnect clears alive.
C14_SelfAddressedReaddressed ==
    [][\A c \in Conns : \A cmd \in Heads(c) :
          (Takes(c, cmd) /\ cmd.tag = "SelfAddressed" /\ pc'[c] # "panicked")
             => /\ sock'[c] = Append(sock[c], [cmd.p EXCEPT !.id = GuidOf(c)])
                /\ cmd.p.kind = "Shine"
                      => players'[GuidOf(c)].shine_sync
                            = players[GuidOf(c)].shine_sync \cup {cmd.p.n}
                /\ cmd.p.kind = "Disconnect" => ~alive'[c]]_vars

\* a client whose peer has reported no save file was sent a shine the server
\* addressed with its own id, under the client's guid, and has recorded it
C14_Witness ==
    \E c \in Conns :
        /\ pc[c] = "run"
        /\ GuidOf(c) # ServerGuid
        /\ GuidOf(c) \in DOMAIN players
        /\ ~players[GuidOf(c)].loaded_save
        /\ 1 \in players[GuidOf(c)].shine_sync
        /\ sock[c][Len(sock[c])] = Pkt("Shine", GuidOf(c), "", "F", 1, 0)

\* the coordinator handles the packet at the head of its queue, of this kind
HandlesPacket(kind) ==
    /\ CoordTakes("Packet")
    /\ Head(coordQ).p.kind = kind
    /\ coordQ' = Tail(coordQ)

\* the Shine commands client_sync_shines sends a player with the data `data`
\* when the server's shines are sh
ShineDiff(sh, data) ==
    LET mismatch == SortedSeq(sh \ (data.shine_sync \cup settings.excluded))
    IN [i \in 1..Len(mismatch) |->
           CSelfAddressed(Pkt("Shine", ServerGuid, "", "F", mismatch[i], 0))]

\* every player whose shine sync is enabled has been sent the shines of sh
\* it lacks, and the channel of every other connection is as it was
SyncedAll(sh) ==
    \A c \in Conns :
        chan'[c] = chan[c] \o
            (IF \E g \in DOMAIN players : players[g].channel = c /\ ~players[g].disable_shine_sync
             THEN ShineDiff(sh, players[CHOOSE g \in DOMAIN players : players[g].channel = c])
             ELSE <<>>)

\* C15 as claimed: an excluded shine changes nothing and sends nothing; any
\* other shine is inserted into lobby.shines, sync_all_shines runs, and the
\* Shine packet is published on the bus.
C15_ShinePublished ==
    [][HandlesPacket("Shine") =>
          LET p == Head(coordQ).p
          IN IF p.n \in settings.excluded
             THEN shines' = shines /\ chan' = chan
             ELSE /\ shines' = shines \cup {p.n}
                  /\ SyncedAll(shines')
                  /\ bus' = BusPut(bus, CPacket(p))]_vars

\* C15: an excluded shine changes nothing and sends nothing; any other shine
\* is inserted into lobby.shines and sync_all_shines runs; in both cases the
\* handler returns without publishing the Shine packet on the bus.
C15_ShineSynced ==
    [][HandlesPacket("Shine") =>
          LET p == Head(coordQ).p
          IN /\ bus' = bus
             /\ players' = players
             /\ IF p.n \in settings.excluded
                THEN shines' = shines /\ chan' = chan
                ELSE shines' = shines \cup {p.n} /\ SyncedAll(shines')]_vars

\* the coordinator has handled a shine that is not excluded: the shine is in
\* lobby.shines and on the channel of a player, and no bus holds a message
C15_Witness ==
    /\ coordPc = "idle"
    /\ coordCur.tag = "Packet"
    /\ coordCur.p.kind = "Shine"
    /\ coordCur.p.n \notin settings.excluded
    /\ coordCur.p.n \in shines
    /\ \A c \in Conns : bus[c] = <<>>
    /\ \E c \in Conns : chan[c] # <<>> /\ chan[c][Len(chan[c])].p.n = coordCur.p.n

\* C18: when the coordinator handles a Game packet of a new save file (Cap
\* home or tower stage, scenario 1, stage not banned) from a player whose
\* disable_shine_sync is false, then afterwards that flag is true, the
\* player's shine_sync is empty and lobby.shines is empty.
C18_NewSaveGate ==
    [][HandlesPacket("Game") =>
          LET p == Head(coordQ).p
          IN (/\ p.s \in {"CapWorldHomeStage", "CapWorldTowerStage"}
              /\ p.n = 1
              /\ ~(settings.ban_enabled /\ p.s \in settings.ban_stages)
              /\ p.id \in DOMAIN players
              /\ ~players[p.id].disable_shine_sync)
             => /\ players'[p.id].disable_shine_sync
                /\ players'[p.id].shine_sync = {}
                /\ shines' = {}]_vars

\* the gate has fired for a player that had been sent a shine before: the
\* flag is set and both shine sets are empty
C18_Witness ==
    \E c \in Conns :
        /\ coordPc = "idle"
        /\ coordCur = CmdPacket(GameNewSave(GuidOf(c)))
        /\ GuidOf(c) \in DOMAIN players
        /\ players[GuidOf(c)].disable_shine_sync
        /\ players[GuidOf(c)].shine_sync = {}
        /\ shines = {}
        /\ nAdmin = 0
        /\ \E i \in 1..Len(sock[c]) : sock[c][i].kind = "Shine"

\* the Shine commands among the commands of a channel
ShineCommands(q) == SelectSeq(q, LAMBDA cmd : cmd.p.kind = "Shine")

\* the player g is on a new save file: the gate has set its
\* disable_shine_sync, no task waits to clear the flag, and no Game packet of
\* a later stage from g waits in the coordinator's queue
OnNewSave(g) ==
    /\ g \in DOMAIN players
    /\ players[g].disable_shine_sync
    /\ \A i \in 1..Len(tasks) : ~(tasks[i].kind = "reenable" /\ tasks[i].guid = g)
    /\ \A i \in 1..Len(coordQ) :
          ~(/\ coordQ[i].tag = "Packet"
            /\ coordQ[i].p.kind = "Game"
            /\ coordQ[i].p.id = g
            /\ ~(coordQ[i].p.s \in {"CapWorldHomeStage", "CapWorldTowerStage"} /\ coordQ[i].p.n = 1))

\* C19: while a player is on a new save file (from the gate until the player
\* sends a Game packet of a later stage) no step of the server places a
\* Shine on the player's channel.
C19_NoShineOnNewSave ==
    [][\A g \in Guids :
          OnNewSave(g) =>
             Len(ShineCommands(chan'[players[g].channel]))
                <= Len(ShineCommands(chan[players[g].channel]))]_vars

\* the coordinator handles a command that runs sync_all_shines: a Costume
\* packet, a Shine packet that is not excluded, or the console's Shine Sync
SyncStep ==
    \/ HandlesPacket("Costume")
    \/ HandlesPacket("Shine") /\ Head(coordQ).p.n \notin settings.excluded
    \/ CoordTakes("External") /\ Head(coordQ).x = "ShineSync" /\ coordQ' = Tail(coordQ)

\* C16: with shines.enabled, one run of sync_all_shines places on the channel
\* of every player whose disable_shine_sync is false one SelfAddressed
\* Shine{s, is_grand = false} for each s in lobby.shines that is neither in
\* the player's shine_sync nor excluded, and nothing on the channel of a
\* player whose disable_shine_sync is true, whatever the state of the other
\* players' channels.
C16_SyncEveryPlayer ==
    [][(SyncStep /\ settings.shines_enabled) =>
          \A g \in DOMAIN players :
             chanOpen[players[g].channel] =>
                chan'[players[g].channel] = chan[players[g].channel] \o
                    (IF players[g].disable_shine_sync THEN <<>>
                     ELSE ShineDiff(shines', players[g]))]_vars

\* the coordinator has just handled, without an error, the Shine{s} packet
\* of a player that has loaded its save file, and s is in lobby.shines
ShineCollected(s) ==
    /\ coordPc = "idle"
    /\ coordRes = "ok"
    /\ coordCur.tag = "Packet"
    /\ coordCur.p.kind = "Shine"
    /\ coordCur.p.n = s
    /\ s \notin settings.excluded
    /\ coordCur.p.id \in DOMAIN players
    /\ players[coordCur.p.id].loaded_save
    /\ s \in shines

\* the player of connection c is connected and does not have s in its shine_sync
Lacks(c, s) ==
    /\ pc[c] = "run"
    /\ GuidOf(c) \in DOMAIN players
    /\ players[GuidOf(c)].channel = c
    /\ s \notin players[GuidOf(c)].shine_sync

\* the peer of connection c has been sent Shine{s} under its own guid, as a
\* SelfAddressed packet is sent
ReceivedShine(c, s) ==
    \E i \in 1..Len(sock[c]) : sock[c][i] = Pkt("Shine", GuidOf(c), "", "F", s, 0)

\* the next command of the coordinator is the Shine{s} packet of a player
\* that has loaded its save file, and s is not in lobby.shines yet: nobody
\* was sent s before
CollectsNewShine(s) ==
    /\ CoordTakes("Packet")
    /\ Head(coordQ).p.kind = "Shine"
    /\ Head(coordQ).p.n = s
    /\ s \notin settings.excluded
    /\ s \notin shines
    /\ Head(coordQ).p.id \in DOMAIN players
    /\ players[Head(coordQ).p.id].loaded_save

\* C17 as claimed: after the Shine{s} of a player with a loaded save file,
\* the sender and every other connected player that does not have s in its
\* shine_sync are eventually sent Shine{s}.
C17_ShineReachesAll ==
    \A c \in Conns : \A s \in ShineIds :
        (/\ CollectsNewShine(s)
         /\ pc[c] = "run"
         /\ GuidOf(c) \in DOMAIN players
         /\ players[GuidOf(c)].channel = c
         /\ GuidOf(c) = Head(coordQ).p.id \/ s \notin players[GuidOf(c)].shine_sync)
            ~> ReceivedShine(c, s)

\* C17: once the Shine{s} of a player with a loaded save file is handled, s
\* is in lobby.shines, and every connected player that does not have s in its
\* shine_sync and whose disable_shine_sync is false is eventually sent
\* Shine{s}; the sender itself has s in its shine_sync and is sent nothing.
C17_ShineReachesEnabled ==
    /\ [][(HandlesPacket("Shine") /\ Head(coordQ).p.n \notin settings.excluded)
             => /\ Head(coordQ).p.n \in shines'
                /\ \A g \in DOMAIN players :
                      Head(coordQ).p.n \in players[g].shine_sync
                         => ShineCommands(chan'[players[g].channel])
                               = ShineCommands(chan[players[g].channel])]_vars
    /\ \A c \in Conns : \A s \in ShineIds :
          (ShineCollected(s) /\ Lacks(c, s) /\ ~players[GuidOf(c)].disable_shine_sync)
             ~> ReceivedShine(c, s)

\* the first peer loaded its save file and collected shine 1: it has been
\* sent no shine, and the second peer has been sent Shine{1}
C17_Witness ==
    /\ ShineCollected(1)
    /\ coordCur.p.id = GuidOf(1)
    /\ 1 \in players[GuidOf(1)].shine_sync
    /\ chan[1] = <<>>
    /\ ~ReceivedShine(1, 1)
    /\ ReceivedShine(2, 1)

\* the next command of the coordinator is a Game packet of the player g whose
\* disable_shine_sync is set, and the packet is not that of a new save file
GameOfDisabled(g) ==
    /\ CoordTakes("Packet")
    /\ Head(coordQ).p.kind = "Game"
    /\ Head(coordQ).p.id = g
    /\ g \in DOMAIN players
    /\ players[g].disable_shine_sync
    /\ ~(Head(coordQ).p.s \in {"CapWorldHomeStage", "CapWorldTowerStage"} /\ Head(coordQ).p.n = 1)

\* the task spawned to enable the shine sync of g again runs
ReenableStep(g) ==
    \E i \in 1..Len(tasks) :
        tasks[i] = [kind |-> "reenable", guid |-> g] /\ tasks' = RemoveAt(tasks, i)

\* the Shine commands of the task: one for every shine of the server that the
\* player g neither has nor is excluded, under the player's own guid
OwnDiff(g) ==
    LET mismatch == SortedSeq(shines \ (players[g].shine_sync \cup settings.excluded))
    IN [i \in 1..Len(mismatch) |-> CSelfAddressed(Pkt("Shine", g, "", "F", mismatch[i], 0))]

\* when the task runs for a connected player, the flag is cleared and (when
\* shines.enabled) the diff is placed on the player's channel
ReenableSends ==
    \A g \in Guids :
        (ReenableStep(g) /\ g \in DOMAIN players)
           => /\ ~players'[g].disable_shine_sync
              /\ chan'[players[g].channel] =
                    chan[players[g].channel] \o (IF settings.shines_enabled THEN OwnDiff(g) ELSE <<>>)

\* C20 as claimed: after any Game packet that is not that of a new save
\* file, a connected player whose disable_shine_sync is set eventually has
\* the flag cleared, the diff being placed on its channel then.
C20_ReenabledAfterGame ==
    /\ [][ReenableSends]_vars
    /\ \A g \in Guids :
          GameOfDisabled(g) ~> (g \in DOMAIN players /\ ~players[g].disable_shine_sync)

\* C20: after a Game packet that is not that of a new save file and whose
\* stage is not banned (the coordinator returns early for a banned stage), a
\* connected player whose disable_shine_sync is set eventually has the flag
\* cleared; the task that clears it places one SelfAddressed Shine for every
\* id in lobby.shines \ (shine_sync \cup excluded) on the player's channel.
C20_ReenabledAfterAllowedGame ==
    /\ [][ReenableSends]_vars
    /\ \A g \in Guids :
          (/\ GameOfDisabled(g)
           /\ ~(settings.ban_enabled /\ Head(coordQ).p.s \in settings.ban_stages))
             ~> (g \in DOMAIN players /\ ~players[g].disable_shine_sync)

\* the second peer started a new save file and then entered Cascade while
\* the server had shine 1: the task has cleared its flag and has placed
\* Shine{1}, under the peer's own guid, on its channel
C20_Witness ==
    /\ GuidOf(2) \in DOMAIN players
    /\ ~players[GuidOf(2)].disable_shine_sync
    /\ players[GuidOf(2)].last_game_packet.s = "WaterfallWorldHomeStage"
    /\ chan[2] # <<>>
    /\ Head(chan[2]) = CSelfAddressed(Pkt("Shine", GuidOf(2), "", "F", 1, 0))

\* the packet handle_external_cmd makes for PlayerCommand::Crash, as the
\* client task of connection c writes a SelfAddressed packet
CrashPacket(g) == Pkt("ChangeStage", g, "$among$us/cr4sh%", "$agogusStage", 21, 69)

\* the next command of the coordinator is a Game packet of the player g for
\* a banned stage
BannedGame(g) ==
    /\ CoordTakes("Packet")
    /\ Head(coordQ).p.kind = "Game"
    /\ Head(coordQ).p.id = g
    /\ settings.ban_enabled
    /\ Head(coordQ).p.s \in settings.ban_stages

\* C21: a Game packet for a banned stage is published on no bus, neither as
\* Packet nor as SelfAddressed, and leaves the shine state as it is; the only
\* effect is the spawned crash task.  The task posts
\* External(Player{Individual([p.id]), Crash}); handling it places the
\* ChangeStage of the crash, SelfAddressed, on that player's channel alone;
\* and the player that stays connected is eventually written that packet.
C21_BannedStageCrash ==
    /\ [][\A g \in Guids :
            (BannedGame(g) /\ coordQ' = Tail(coordQ))
               => /\ bus' = bus
                  /\ chan' = chan
                  /\ shines' = shines
                  /\ players' = players
                  /\ tasks' = Append(tasks, [kind |-> "crash", guid |-> g])]_vars
    /\ [][\A i \in 1..Len(tasks) :
            (tasks[i].kind = "crash" /\ tasks' = RemoveAt(tasks, i))
               => coordQ' = Append(coordQ, CmdExternal("Crash", tasks[i].guid))]_vars
    /\ [][(/\ CoordTakes("External")
           /\ Head(coordQ).x = "Crash"
           /\ coordQ' = Tail(coordQ)
           /\ Head(coordQ).guid \in DOMAIN players)
              => /\ bus' = bus
                 /\ chan' = [chan EXCEPT ![players[Head(coordQ).guid].channel] =
                                Append(@, CSelfAddressed(CrashPacket(ServerGuid)))]]_vars
    /\ \A c \in Conns :
          (pc[c] = "run" /\ BannedGame(GuidOf(c)))
             ~> (\E i \in 1..Len(sock[c]) : sock[c][i] = CrashPacket(GuidOf(c)))

\* the second peer entered the banned stage and has been written the
\* ChangeStage of the crash; its Game packet reached no other peer
C21_Witness ==
    /\ GuidOf(2) \in DOMAIN players
    /\ players[GuidOf(2)].last_game_packet.s = "BannedStage"
    /\ sock[2] # <<>>
    /\ sock[2][Len(sock[2])] = CrashPacket(GuidOf(2))
    /\ \A i \in 1..Len(sock[1]) : sock[1][i].kind # "Game"
    /\ bus[1] = <<>>

\* the listener has spawned ignore_client for connection c: the connection is
\* on the ignore path, or was closed there, and no Connect packet was read
ListenerIgnored(c) == pc[c] \in {"ignore", "closed"} /\ connect[c] = NoPkt

\* the NewPlayer command of connection c is in the coordinator's queue or is
\* the command the coordinator took last
HasNewPlayer(c) ==
    \/ coordCur.tag = "NewPlayer" /\ coordCur.conn = c
    \/ \E i \in 1..Len(coordQ) : coordQ[i].tag = "NewPlayer" /\ coordQ[i].conn = c

\* C27: a connection accepted from a banned address, or accepted while the
\* lobby holds max_players players, is given to ignore_client: no channel is
\* created for it (initialize_client is not spawned), the offset into the UDP
\* port pool stays as it is, the connection stays on the ignore path, and no
\* NewPlayer command is ever made for it.
C27_RoutedToIgnorePath ==
    /\ [][\A c \in Conns : \A ip \in IPs :
            (/\ Accept(c, ip)
             /\ \/ ip \in settings.ban_ips
                \/ Cardinality(DOMAIN players) >= settings.max_players)
               => /\ ListenerIgnored(c)'
                  /\ ~chanOpen'[c]
                  /\ udp_offset' = udp_offset
                  /\ coordQ' = coordQ]_vars
    /\ [][\A c \in Conns : ListenerIgnored(c) => ListenerIgnored(c)']_vars
    /\ [](\A c \in Conns : ListenerIgnored(c) => ~HasNewPlayer(c) /\ ~chanOpen[c])

\* the first peer is in the lobby of a server with room for one player, and
\* the second connection was given to ignore_client: one UDP port is taken
C27_Witness ==
    /\ settings.max_players = 1
    /\ Cardinality(DOMAIN players) = 1
    /\ pc[1] = "run"
    /\ ListenerIgnored(2)
    /\ sock[2] = <<InitPacket(1)>>
    /\ udp_offset = 1

C23_CostumePublished ==
    [][HandlesPacket("Costume")
          => bus' = BusPut(bus, CPacket(Head(coordQ).p))]_vars

\* C24 as claimed: with persist_shines.enabled, every step of the coordinator
\* that changes lobby.shines spawns the persistence task.
C24_ShinesPersisted ==
    [][(settings.persist_enabled /\ shines' # shines)
          => tasks' = Append(tasks, [kind |-> "persist", guid |-> 0])]_vars

\* the Result handle_external_cmd returns for the command cmd
ExternalResult(cmd) ==
    IF cmd.x = "Crash" /\ cmd.guid # 0
    THEN IF cmd.guid \in DOMAIN players /\ chanOpen[players[cmd.guid].channel]
         THEN "ok" ELSE "err"
    ELSE coordRes'

C26_FlipApplied ==
    /\ [][\A c \in Conns : \A p \in FlipPackets(c) :
            (/\ p.kind = "Player"
             /\ ClientRecvPacket(c, p)
             /\ GuidOf(c) \in DOMAIN players)
               => LET up == IF players[GuidOf(c)].is_2d = "2d" THEN 180 ELSE 160
                      q == IF /\ settings.flip_enabled
                              /\ settings.flip_pov \in {"Both", "Others"}
                              /\ p.id \in settings.flip_players
                           THEN [p EXCEPT !.n = p.n + up, !.m = (p.m + 1) % 4]
                           ELSE p
                  IN /\ players'[GuidOf(c)].last_player_packet = q
                     /\ coordQ' = Append(coordQ, CmdPacket(q))]_vars
    /\ [][\A c \in Conns :
            (/\ pc[c] = "run"
             /\ bus[c] # <<>>
             /\ Head(bus[c]).tag = "Packet"
             /\ Head(bus[c]).p.kind = "Player"
             /\ Head(bus[c]).p.id # GuidOf(c)
             /\ GuidOf(c) \in DOMAIN players
             /\ bus'[c] = Tail(bus[c]))
               => LET p == Head(bus[c]).p
                      up == IF players[GuidOf(c)].is_2d = "2d" THEN 180 ELSE 160
                      q == IF /\ settings.flip_enabled
                              /\ settings.flip_pov \in {"Both", "Player"}
                              /\ GuidOf(c) \in settings.flip_players
                              /\ p.id \notin settings.flip_players
                           THEN [p EXCEPT !.n = p.n + up, !.m = (p.m + 1) % 4]
                           ELSE p
                  IN sock'[c] = Append(sock[c], q)]_vars

\* the first player is flipped for both points of view and is in a 2D
\* section: the second peer was written its Player packet flipped on the way
\* in, and the first peer was written the Player packet of the second
\* flipped on the way out
C26_Witness ==
    /\ settings.flip_enabled
    /\ settings.flip_pov = "Both"
    /\ settings.flip_players = {1}
    /\ \E i \in DOMAIN sock[2] : sock[2][i] = Pkt("Player", 1, "", "", 180, 1)
    /\ \E i \in DOMAIN sock[1] : sock[1][i] = Pkt("Player", 2, "", "", 180, 1)

\* the packet type and the declared data_size in the header of the buffer
FrameType == wire.buf[17] + 256 * wire.buf[18]
FrameSize == wire.buf[19] + 256 * wire.buf[20]

\* C28: for every packet p obtained by decoding a frame of kind 1..13 and
\* resizing it, decoding the encoding of p succeeds and yields a packet with
\* the id, the data_size and the data of p.
C28_RoundTrip ==
    (wire.stage = "done" /\ FrameType \in 1..13)
        => /\ wire.de_p.res = "ok"
           /\ wire.de_p.pkt.data.kind = wire.p.data.kind
           /\ wire.de_p.pkt = wire.p

\* a Game frame that declared one byte of padding and whose stage field
\* starts with a NUL was decoded to a stage without it, resized to the 66
\* bytes of its kind, encoded and decoded again to the same packet
C28_Witness ==
    /\ wire.stage = "done"
    /\ FrameType = 4
    /\ FrameSize = 2 + STAGE_GAME_NAME_SIZE + 1
    /\ wire.buf[23] = 0
    /\ wire.p.data_size = 2 + STAGE_GAME_NAME_SIZE
    /\ wire.p.data.f[3] # <<>>
    /\ wire.p.data.f[3][1] # 0
    /\ wire.de_p.res = "ok"
    /\ wire.de_p.pkt = wire.p

\* C29: a kind-5 frame whose first payload byte is (gm<<4)|ut decodes to Tag
\* exactly when gm is HideAndSeek (1) or Sardines (2), or gm is Legacy (0)
\* and ut = 3, and to GameMode carrying the remaining data_size - 1 bytes
\* otherwise; and encoding the decoded packet writes a first payload byte
\* equal to the original byte.
C29_TagByteReproduced ==
    (wire.stage = "done" /\ FrameType = 5)
        => LET both == wire.buf[21]
               gm == both \div 16
               ut == both % 16
               data == wire.de.pkt.data
           IN /\ data.kind = (IF gm \in {1, 2} \/ (gm = 0 /\ ut = 3) THEN "Tag" ELSE "GameMode")
              /\ data.kind = "GameMode" => data.f[3] = SubSeq(wire.buf, 22, 20 + FrameSize)
              /\ wire.out[21] = both

\* C30: for every kind that declares its data_size and every declared
\* data_size of at least the payload length of the kind, a successful decode
\* consumes exactly 20 + data_size bytes of the buffer, and a frame that
\* declares more than MAX_PACKET_SIZE bytes is not decoded.
C30_ConsumesFrame ==
    (wire.stage = "decoded" /\ FrameType # JsonApiType)
        => /\ wire.de.res = "ok" => wire.de.used = 20 + FrameSize
           /\ FrameSize > MAX_PACKET_SIZE => wire.de.res # "ok"

\* C31: at every reachable state lobby.players has at most
\* settings.server.max_players entries, also when several connections are
\* accepted and complete their handshakes before the coordinator has
\* inserted any of them.
C31_PlayersWithinMax == Cardinality(DOMAIN players) <= settings.max_players

\* C32: a DisconnectPlayer{guid} the coordinator handles while the player
\* under that guid belongs to a connection whose own task still runs and has
\* emitted no DisconnectPlayer (the command comes from the task of an older
\* connection with the same guid) neither removes that player from
\* lobby.players nor sends a Disconnect on its channel.
C32_OldDisconnectSparesNew ==
    [][\A c \in Conns :
         (/\ CoordTakes("DisconnectPlayer")
          /\ coordQ' = Tail(coordQ)
          /\ Head(coordQ).guid \in DOMAIN players
          /\ players[Head(coordQ).guid].channel = c
          /\ pc[c] = "run"
          /\ discSent[c] = <<>>)
            => /\ Head(coordQ).guid \in DOMAIN players'
               /\ chan'[c] = chan[c]]_vars

\* C33: whenever the coordinator is between commands, lobby.names is a
\* bijection, the guids it binds are the keys of lobby.players, and the name
\* bound to a guid is the name of that player.
C33_NamesMatchPlayers ==
    coordPc = "idle"
        => /\ \A a, b \in names : (a[1] = b[1] \/ a[2] = b[2]) => a = b
           /\ {pr[1] : pr \in names} = DOMAIN players
           /\ \A pr \in names : players[pr[1]].name = pr[2]

\* the coordinator has taken no command it can finish: the packet at the head
\* of its queue makes it send on the channel of connection c, which is full
CoordWaitsFor(c) ==
    /\ CoordTakes("Packet")
    /\ chanOpen[c]
    /\ Len(chan[c]) >= ChanCap
    /\ \A order \in Perms(DOMAIN players) :
          HandlePacketCmd(Head(coordQ).p, order, CoordState).res = "block"

\* C34: there is no reachable state in which the coordinator waits to send on
\* a full client channel while the client task that owns the channel waits
\* to send on the full coordinator queue (a state from which neither of them
\* takes another step, so that the commands in the queue are never handled).
C34_NoChannelDeadlock ==
    \A c \in Conns :
        ~(/\ CoordWaitsFor(c)
          /\ pc[c] = "send"
          /\ Len(coordQ) >= CoordCap)

\* C35: every packet a client task puts on the coordinator's queue or on the
\* bus when it has read its socket carries the guid of that task as id, and
\* no task clears its alive flag but for a packet of its own peer or a
\* Disconnect the coordinator sent it.
C35_PacketsCarryOwnGuid ==
    /\ [][\A c \in Conns : \A p \in ForgedPackets(c) :
            ClientRecvPacket(c, p)
                => /\ coordQ' # coordQ => coordQ'[Len(coordQ')].p.id = GuidOf(c)
                   /\ \A d \in Conns :
                         bus'[d] # bus[d] => bus'[d][Len(bus'[d])].p.id = GuidOf(c)]_vars
    /\ [][\A c \in Conns :
            (alive[c] /\ ~alive'[c]) => GuidOf(c) \notin DOMAIN players]_vars

\* the positions of the channel of connection c at which ch holds a Shine
\* command for the shine s
ShinesPending(ch, c, s) ==
    {i \in DOMAIN ch[c] : ch[c][i].p.kind = "Shine" /\ ch[c][i].p.n = s}

\* C36: a Shine{s} that is on a player's channel and has not been taken by
\* the player's task is not put on that channel again while s stays in
\* lobby.shines: no step adds a second Shine{s} to the channel.
C36_ShineSentOnce ==
    [][\A c \in Conns : \A s \in 1..NShine :
         (/\ s \in shines
          /\ s \in shines'
          /\ ShinesPending(chan, c, s) # {})
            => Cardinality(ShinesPending(chan', c, s)) <= Cardinality(ShinesPending(chan, c, s))]_vars

\* C37: whenever the most recent Game packet of a connected player that the
\* coordinator has handled is that of a new save file (the last Game packet
\* its task received is one, and no Game packet of the player waits in the
\* coordinator's queue), the disable_shine_sync of the player is true.
C37_NewSaveKeepsSyncDisabled ==
    \A g \in DOMAIN players :
        (/\ coordPc = "idle"
         /\ players[g].last_game_packet.kind = "Game"
         /\ IsNewSave(players[g].last_game_packet)
         /\ \A i \in 1..Len(coordQ) :
               ~(coordQ[i].tag = "Packet" /\ coordQ[i].p.kind = "Game" /\ coordQ[i].p.id = g))
            => players[g].disable_shine_sync

\* C38: while the ban list is enabled, no client is written a Game packet of
\* another player that names a stage of ban_list.stages.
C38_BannedStageNotSent ==
    \A c \in Conns : \A i \in DOMAIN sock[c] :
        (sock[c][i].kind = "Game" /\ sock[c][i].id # GuidOf(c))
            => ~(settings.ban_enabled /\ sock[c][i].s \in settings.ban_stages)

\* the crash packet of the ignore path
IgnoreCrash == Pkt("ChangeStage", ServerGuid, "$among$us/SubArea", "$agogusStage", 21, 69)

\* a turn of the ignore loop of connection c sends no command to the
\* coordinator, publishes nothing and leaves the lobby and every channel alone
IgnoreFrame(c, kind) ==
    IgnoreRecv(c, kind)
        => /\ UNCHANGED <<coordQ, bus, chan, players, names, shines, settings, tasks>>
           /\ \A d \in Conns \ {c} : sock'[d] = sock[d]

AdmittedBefore(c) == Cardinality({d \in Conns : d < c /\ udp_port[d] # <<>>})

\* C40: for every configured base_port and port_count, port_count = 0 and
\* base_port + port_count - 1 > 65535 included, the listener gives the k-th
\* connection it admits (from 0, not counting the connections sent to the
\* ignore path) the UDP port base_port + (k mod port_count), a 16-bit value
\* within base_port .. base_port + port_count - 1; none is left without one.
C40_UdpPortRoundRobin ==
    \A c \in Conns :
        /\ pc[c] # "dropped"
        /\ udp_port[c] # <<>> =>
              /\ settings.udp_port_count > 0
              /\ udp_port[c][1] = settings.udp_base_port
                                     + (AdmittedBefore(c) % settings.udp_port_count)
              /\ udp_port[c][1] >= settings.udp_base_port
              /\ udp_port[c][1] <= settings.udp_base_port + settings.udp_port_count - 1
              /\ udp_port[c][1] \in 0..65535

====
